---- MODULE Spec2Model ----
(***************************************************************************)
(* A model of package htmlctrl (Bredgren/gohtmlctrl): the scalar binders   *)
(* Bool, Int, Float64, String and Choice with their change handlers, the   *)
(* Slice binder with its add and delete handlers, the Struct binder and    *)
(* the validator registry.                                                 *)
(*                                                                         *)
(* Numbers: a float64 is modelled in tenths (the integer 37 is 3.7), with  *)
(* NaN as a separate value; an int is an integer.  The text of a number    *)
(* input is a record: empty, or a decimal numeral with or without a        *)
(* decimal point.                                                          *)
(***************************************************************************)
EXTENDS Integers, Sequences, FiniteSets, TLC

VARIABLES
  scn,    \* which caller scenario this behaviour is: "scalar", "slice", "struct"
  ctype,  \* scalar: the Go type of the caller's variable
  cell,   \* scalar: the caller's variable, the target of b, i, f, s
  ws,     \* scalar: the widgets bound to the caller's variable, in bind order
  meta,   \* the validator, min and max the caller passes to the binder
  etype,  \* slice: the element type of the caller's slice, "int" or "*int"
  slice,  \* slice: the caller's slice variable: its backing array and its length
  backing,\* slice: the backing array of the caller's slice: its identity and slots
  heap,   \* slice: the ints that the elements of a []*int point to, by address
  rows,   \* slice: the rows of the list, each the widget of one element
  validators, \* struct: the registry, from a name to the validator registered
  rec,    \* struct: the caller's struct, a sequence of fields
  form,   \* struct: the field containers of the struct's widget
  top,    \* slice, struct: the native attributes of the widget returned
  arg,    \* call: what the caller passes to the binder
  ret,    \* call: what the binder returned, and the list and the slice as clicks leave them
  ev      \* the last operation: what was called, on which widget, with what

scalarVars == <<ctype, cell, ws>>
sliceVars == <<etype, slice, backing, heap, rows>>
structVars == <<validators, rec, form>>
callVars == <<arg, ret>>
vars == <<scn, meta, top, scalarVars, sliceVars, structVars, callVars, ev>>

\* ---------------------------------------------------------------- bounds

\* Largest whole part of a number the user types or the caller holds.
MaxInt == 2

\* Widgets bound to one caller variable: testStruct binds &Sptr to two fields.
MaxWidgets == 2

\* Rows of a list in a bound struct: the slices of testSlices hold two elements.
MaxRows == 2

\* Longest slice: the add button is not pressed on a slice this long.
MaxLen == 3

\* Most fields of a struct the caller binds.
MaxFields == 3

\* ---------------------------------------------------------------- values

\* Fractional digits the user types after a decimal point.
FracDigits == {7}

Ints == -MaxInt..MaxInt

\* float64 values in tenths.
Floats == {10 * i : i \in Ints}
            \cup {s * (10 * k + d) : s \in {-1, 1}, k \in 0..MaxInt, d \in FracDigits}

NaN == [nan |-> TRUE, t |-> 0]
F(t) == [nan |-> FALSE, t |-> t]

\* math.IsNaN
IsNaN(f) == f.nan

Strings == {"", "def", "abc", "zzz"}

\* The text of a number input.
EmptyText == [empty |-> TRUE, n |-> 0, dot |-> FALSE]
IntText(i) == [empty |-> FALSE, n |-> 10 * i, dot |-> FALSE]
DotText(t) == [empty |-> FALSE, n |-> t, dot |-> TRUE]
NumTexts == {EmptyText} \cup {IntText(i) : i \in Ints}
            \cup {DotText(t) : t \in Floats \ {10 * i : i \in Ints \ {1}}}

\* int(f) of Go: the float64 f (in tenths) truncated toward zero.
FloorToInt(t) == t \div 10
TruncToInt(t) == IF t >= 0 THEN t \div 10 ELSE -((-t) \div 10)

\* strconv.Atoi: a numeral without a decimal point.
Atoi(text) == [ok |-> ~text.empty /\ ~text.dot, v |-> TruncToInt(text.n)]

\* strconv.ParseFloat(val, 64), in tenths.
ParseFloatLenient(text) == [ok |-> TRUE, v |-> text.n]
ParseFloat(text) == [ok |-> ~text.empty, v |-> text.n]

\* The text jQuery shows for a Go int (SetAttr("value", i), SetVal(i)).
FormatIntZero(i) == IntText(0)
FormatInt(i) == IntText(i)

\* The text jQuery shows for a float64: JavaScript prints 3.0 as "3".
FormatFloat(t) == IF t % 10 = 0 THEN IntText(TruncToInt(t)) ELSE DotText(t)

\* choices[i] with Go's indices, from 0.
At(choices, i) == choices[i + 1]

\* ------------------------------------------------------------ validators

\* A validator: nil, or the values it rejects and the type its Validate
\* asserts of the argument.  Rejecting is a ValidatorFunc, or a validator
\* on values of the type it takes; Asserting is a ValidateBool, ValidateInt,
\* ValidateFloat64 or ValidateString wherever it is attached.
NoValidator == [nil |-> TRUE, rejects |-> {}, arg |-> "any"]
Rejecting(S) == [nil |-> FALSE, rejects |-> S, arg |-> "any"]
Asserting(kind, S) == [nil |-> FALSE, rejects |-> S, arg |-> kind]

\* v(i.(T)) in Validate: the assertion panics on an argument of another type.
AssertionFails(valid, kind) == ~valid.nil /\ valid.arg \notin {"any", kind}

\* Validator.Validate
ValidateNever(valid, x) == FALSE
ValidateAlways(valid, x) == TRUE
Validate(valid, x) == x \notin valid.rejects

BoolValidators == {NoValidator, Rejecting({FALSE}), Rejecting({TRUE})}
IntValidators == {NoValidator, Rejecting({1})}
FloatValidators == {NoValidator, Rejecting({10})}
StringValidators == {NoValidator, Rejecting({"abc"})}

\* min and max as the caller passes them: unset, whole or fractional.
Titles == {"", "a title"}
Unbounded(title) == <<NaN, NaN, NaN, title>>
Bounds ==
  {Unbounded(""), <<NaN, NaN, F(20), "a title">>, <<F(0), F(10), NaN, "a title">>,
   <<F(15), NaN, F(5), "">>, <<NaN, F(-15), NaN, "">>, <<F(-7), F(17), F(10), "a title">>}

Meta(valid, bounds) ==
  [valid |-> valid, min |-> bounds[1], max |-> bounds[2], step |-> bounds[3], title |-> bounds[4]]

Metas(t) ==
  CASE t = "bool" -> {Meta(v, Unbounded(l)) : v \in BoolValidators, l \in Titles}
    [] t = "int" -> {Meta(v, b) : v \in IntValidators, b \in Bounds}
    [] t = "float64" -> {Meta(v, b) : v \in FloatValidators, b \in Bounds}
    [] t = "string" -> {Meta(v, Unbounded(l)) : v \in StringValidators, l \in Titles}

ChoiceLists == {<<>>, <<"def", "abc">>, <<"def", "abc", "def">>, <<"abc", "">>}

\* --------------------------------------------------------------- widgets

Widget(kind, display, prev, valid, min, max, choices) ==
  [kind |-> kind, display |-> display, prev |-> prev, valid |-> valid,
   min |-> min, max |-> max, choices |-> choices]

\* What a handler returns to the action: how it ended, the widget after it,
\* and the value it leaves in the bound variable.
Handled(outcome, w, value) == [outcome |-> outcome, w |-> w, value |-> value]

\* The handler Bool installs.  checked is the checkbox state of the event.
JSBoolString(checked) == IF checked THEN "true" ELSE "false"
ParseBool(str) ==
  [ok |-> str \in {"1", "t", "T", "TRUE", "true", "True", "0", "f", "F", "FALSE", "false", "False"},
   v |-> str \in {"1", "t", "T", "TRUE", "true", "True"}]

BoolChange(w, value, checked) ==
  LET p == ParseBool(JSBoolString(checked))
      shown == [w EXCEPT !.display = checked]
  IN IF ~p.ok THEN Handled("panic", shown, value)
     ELSE IF AssertionFails(w.valid, "bool") THEN Handled("panic", shown, value)
     ELSE IF ~w.valid.nil /\ ~Validate(w.valid, p.v)
          THEN Handled("rollback", [shown EXCEPT !.display = w.prev], w.prev)
          ELSE Handled("commit", [shown EXCEPT !.prev = p.v], p.v)

\* The range check of Int: min and max are truncated to ints.
IntIsToLow(min, newI) == ~IsNaN(min) /\ newI < TruncToInt(min.t)
IntIsNeverToHigh(max, newI) == FALSE
IntIsToHigh(max, newI) == ~IsNaN(max) /\ newI > TruncToInt(max.t)

\* The integer the Int handler takes from the text of the event.
IntCandidateRounded(text) ==
  IF Atoi(text).ok THEN Atoi(text).v
  ELSE IF ParseFloat(text).v >= 0 THEN TruncToInt(ParseFloat(text).v + 5)
                                  ELSE TruncToInt(ParseFloat(text).v - 5)
IntCandidate(text) ==
  IF Atoi(text).ok THEN Atoi(text).v ELSE TruncToInt(ParseFloat(text).v)

IntChange(w, value, text) ==
  LET shown == [w EXCEPT !.display = text]
      newI == IntCandidate(text)
      trunc == IF Atoi(text).ok THEN shown ELSE [shown EXCEPT !.display = FormatInt(newI)]
      isValid == w.valid.nil \/ Validate(w.valid, newI)
  IN IF ~Atoi(text).ok /\ ~ParseFloat(text).ok THEN Handled("panic", shown, value)
     ELSE IF AssertionFails(w.valid, "int") THEN Handled("panic", trunc, value)
     ELSE IF ~isValid \/ IntIsToLow(w.min, newI) \/ IntIsToHigh(w.max, newI)
          THEN Handled("rollback", [trunc EXCEPT !.display = FormatInt(w.prev)], w.prev)
          ELSE Handled("commit", [trunc EXCEPT !.prev = newI], newI)

\* The range check of Float64.
FloatIsToLow(min, newF) == ~IsNaN(min) /\ newF < min.t
FloatIsToHigh(max, newF) == ~IsNaN(max) /\ newF > max.t

Float64Change(w, value, text) ==
  LET shown == [w EXCEPT !.display = text]
      newF == ParseFloat(text).v
      set == [shown EXCEPT !.display = FormatFloat(newF)]
      isValid == w.valid.nil \/ Validate(w.valid, newF)
  IN IF ~ParseFloat(text).ok THEN Handled("panic", shown, value)
     ELSE IF AssertionFails(w.valid, "float64") THEN Handled("panic", set, value)
     ELSE IF ~isValid \/ FloatIsToLow(w.min, newF) \/ FloatIsToHigh(w.max, newF)
          THEN Handled("rollback", [set EXCEPT !.display = FormatFloat(w.prev)], w.prev)
          ELSE Handled("commit", [set EXCEPT !.prev = newF], newF)

StringChangeForgets(w, value, newS) ==
  IF ~w.valid.nil /\ ~Validate(w.valid, newS)
  THEN Handled("rollback", [w EXCEPT !.display = w.prev], w.prev)
  ELSE Handled("commit", [w EXCEPT !.display = newS], newS)
StringChange(w, value, newS) ==
  LET shown == [w EXCEPT !.display = newS]
  IN IF AssertionFails(w.valid, "string") THEN Handled("panic", shown, value)
     ELSE IF ~w.valid.nil /\ ~Validate(w.valid, newS)
     THEN Handled("rollback", [shown EXCEPT !.display = w.prev], w.prev)
     ELSE Handled("commit", [shown EXCEPT !.prev = newS], newS)

\* The handler Choice installs.  newIndex is the selectedIndex of the event;
\* the value of the event is the value attribute of that option.
ChoiceChangeByString(w, value, newIndex) ==
  LET newS == At(w.choices, newIndex)
      first == CHOOSE i \in 0..(Len(w.choices) - 1) :
                 /\ At(w.choices, i) = At(w.choices, w.prev)
                 /\ \A k \in 0..(i - 1) : At(w.choices, k) # At(w.choices, w.prev)
  IN IF ~w.valid.nil /\ ~Validate(w.valid, newS)
     THEN Handled("rollback", [w EXCEPT !.display = first, !.prev = first], At(w.choices, first))
     ELSE Handled("commit", [w EXCEPT !.display = newIndex, !.prev = newIndex], newS)
ChoiceChangeKeepsEdit(w, value, newIndex) ==
  Handled("rollback", [w EXCEPT !.display = w.prev], At(w.choices, newIndex))
ChoiceChange(w, value, newIndex) ==
  LET shown == [w EXCEPT !.display = newIndex]
      newS == At(w.choices, newIndex)
  IN IF AssertionFails(w.valid, "string") THEN Handled("panic", shown, value)
     ELSE IF ~w.valid.nil /\ ~Validate(w.valid, newS)
     THEN Handled("rollback", [shown EXCEPT !.display = w.prev], At(w.choices, w.prev))
     ELSE Handled("commit", [shown EXCEPT !.prev = newIndex], At(w.choices, newIndex))

\* The index Choice selects at bind: the last i with choices[i] = s, or -1.
ChoiceIndex(choices, s) ==
  LET hits == {i \in 0..(Len(choices) - 1) : At(choices, i) = s}
  IN IF hits = {} THEN -1 ELSE CHOOSE i \in hits : \A k \in hits : k <= i

\* The value Choice leaves in *s before it looks it up.
ChoiceDefault(choices, s) == IF s = "" THEN choices[1] ELSE s

\* The native attributes a binder sets on its widget: the title always,
\* min, max and step only when they are not NaN.
AttrsAlways(title, min, max, step) ==
  [a \in {"title", "min", "max", "step"} |->
     CASE a = "title" -> title
       [] a = "min" -> min.t
       [] a = "max" -> max.t
       [] a = "step" -> step.t]
Attrs(title, min, max, step) ==
  [a \in {"title"} \cup (IF IsNaN(min) THEN {} ELSE {"min"})
                   \cup (IF IsNaN(max) THEN {} ELSE {"max"})
                   \cup (IF IsNaN(step) THEN {} ELSE {"step"}) |->
     CASE a = "title" -> title
       [] a = "min" -> min.t
       [] a = "max" -> max.t
       [] a = "step" -> step.t]

\* int(min), int(max), int(step) of the attributes of Int, in tenths.
IntBound(b) == IF IsNaN(b) THEN NaN ELSE F(10 * TruncToInt(b.t))

\* A widget with its native attributes.
Rendered(w, attrs) ==
  [kind |-> w.kind, display |-> w.display, prev |-> w.prev, valid |-> w.valid,
   min |-> w.min, max |-> w.max, choices |-> w.choices, attrs |-> attrs]

\* The widgets the scalar binders return for a non-nil pointer.
TitleAttrFromId(title, id) == id
TitleAttr(title, id) == title
BoolWidget(b, title, valid) ==
  Rendered(Widget("bool", b, b, valid, NaN, NaN, <<>>), Attrs(TitleAttr(title, ""), NaN, NaN, NaN))
IntWidget(i, title, min, max, step, valid) ==
  Rendered(Widget("int", FormatInt(i), i, valid, min, max, <<>>),
           Attrs(TitleAttr(title, ""), IntBound(min), IntBound(max), IntBound(step)))
Float64Widget(f, title, min, max, step, valid) ==
  Rendered(Widget("float64", FormatFloat(f), f, valid, min, max, <<>>),
           Attrs(TitleAttr(title, ""), min, max, step))
StringWidget(s, title, valid) ==
  Rendered(Widget("string", s, s, valid, NaN, NaN, <<>>), Attrs(TitleAttr(title, ""), NaN, NaN, NaN))
ChoiceWidget(index, choices, title, valid) ==
  Rendered(Widget("choice", index, index, valid, NaN, NaN, choices), Attrs(TitleAttr(title, ""), NaN, NaN, NaN))

\* ------------------------------------------------------------- the slice

\* The elements of the caller's slice, as the caller reads them.
Elems(sl, bk) == [k \in 1..sl.len |-> bk.slots[k]]

\* The int that element k of the caller's slice holds or points to.
ElemValue(k) == IF etype = "int" THEN backing.slots[k] ELSE heap[backing.slots[k]]

\* reflect.New: the lowest address no object lives at; 0 is nil.
ReusedAddr(hp) == 1
NewAddr(hp) ==
  CHOOSE a \in 1..(Cardinality(DOMAIN hp) + 1) :
    a \notin DOMAIN hp /\ \A b \in 1..(a - 1) : b \in DOMAIN hp

\* The objects some slot of the backing array still refers to: the garbage
\* collector frees the others.
Reachable(hp, bk) == [a \in {bk.slots[k] : k \in 1..Len(bk.slots)} \cap DOMAIN hp |-> hp[a]]

\* The capacity reflect.Append grows a full slice of capacity m to.
GrownCap(m) == IF m = 0 THEN 1 ELSE m + m

\* reflect.Append(sliceValue, x) and sliceValue.Set of its result: in place
\* when the capacity allows, else in a new backing array of grown capacity.
AppendedBacking(sl, bk, x) ==
  IF sl.len + 1 <= Len(bk.slots)
  THEN [bk EXCEPT !.slots[sl.len + 1] = x]
  ELSE [id |-> bk.id + 1,
        slots |-> [k \in 1..GrownCap(Len(bk.slots)) |->
                     IF k <= sl.len THEN bk.slots[k] ELSE IF k = sl.len + 1 THEN x ELSE 0]]

\* reflect.AppendSlice(sliceValue.Slice(0, i), sliceValue.Slice(i+1, Len)):
\* the elements after i move down one slot in the same backing array.
SplicedLast(sl, bk, i) == bk
SplicedBacking(sl, bk, i) ==
  [bk EXCEPT !.slots = [k \in 1..Len(bk.slots) |->
                          IF i < k /\ k < sl.len THEN bk.slots[k + 1] ELSE bk.slots[k]]]

\* populate: one row per element, each the Int widget convert makes for the
\* address of the element (element type int) or for the pointer the element
\* holds (element type *int).
Row(w, arr, at) == [w |-> w, arr |-> arr, at |-> at]

PopulatePinned(et, sl, bk, hp, m) ==
  [k \in 1..sl.len |->
     LET v == IF et = "int" THEN bk.slots[k] ELSE hp[bk.slots[k]]
     IN Row(IntWidget(v, "", m.min, m.max, m.step, m.valid),
            IF et = "int" THEN 1 ELSE 0,
            IF et = "int" THEN k ELSE bk.slots[1])]
PopulateUnvalidated(et, sl, bk, hp, m) ==
  [k \in 1..sl.len |->
     LET v == IF et = "int" THEN bk.slots[k] ELSE hp[bk.slots[k]]
     IN Row(IntWidget(v, "", m.min, m.max, m.step, NoValidator),
            IF et = "int" THEN bk.id ELSE 0,
            IF et = "int" THEN k ELSE bk.slots[k])]
Populate(et, sl, bk, hp, m) ==
  [k \in 1..sl.len |->
     LET v == IF et = "int" THEN bk.slots[k] ELSE hp[bk.slots[k]]
     IN Row(IntWidget(v, "", m.min, m.max, m.step, m.valid),
            IF et = "int" THEN bk.id ELSE 0,
            IF et = "int" THEN k ELSE bk.slots[k])]

\* The slice variables of a behaviour that binds no slice.
NoSlice ==
  /\ etype = "none"
  /\ slice = [arr |-> 0, len |-> 0]
  /\ backing = [id |-> 0, slots |-> <<>>]
  /\ heap = <<>>
  /\ rows = <<>>

\* ------------------------------------------------------------ the struct

\* A field of the caller's struct: whether it is exported, the kind of its
\* type, whether it holds the value, a pointer to it or a nil pointer, the
\* value, and its tags valid, min, max, step and choice.
Field(exported, kind, ref, val, valid, min, max, step, choice) ==
  [exported |-> exported, kind |-> kind, ref |-> ref, val |-> val,
   valid |-> valid, min |-> min, max |-> max, step |-> step, choice |-> choice,
   named |-> FALSE, title |-> ""]

\* A value with no tags: an element of a slice, or what a caller passes.
\* ref is "val" for the value itself, "ptr" for a pointer to it, "nil" for a
\* nil pointer of that type and "ptrptr" for a pointer to a pointer.
Elem(kind, ref, val) == Field(TRUE, kind, ref, val, "", "", "", "", "")

\* The same value, of a defined type of that kind (type Celsius float64).
Named(f) == [f EXCEPT !.named = TRUE]

\* The value of a slice: the type of its elements and the elements.
SliceOf(elem, elems) == [elem |-> elem, elems |-> elems]

\* A literal nil passed as interface{}.
UntypedNil == Elem("untyped nil", "val", 0)

\* strconv.ParseFloat on the text of a min, max or step tag, in tenths.
TagNumbers == ("1" :> 10) @@ ("1.5" :> 15) @@ ("2" :> 20) @@ ("10" :> 100)
ParseTag(tag) ==
  IF tag \in DOMAIN TagNumbers THEN [ok |-> TRUE, v |-> TagNumbers[tag]]
                               ELSE [ok |-> FALSE, v |-> 0]

\* A tag that is not a number is an error unless it is absent.
TagFails(tag) == ~ParseTag(tag).ok /\ tag # ""

\* The bound a tag sets: NaN when the tag is absent.
TagBound(tag) == IF ParseTag(tag).ok THEN F(ParseTag(tag).v) ELSE NaN

\* strings.Split(choices, ",")
SplitComma == ("def,abc" :> <<"def", "abc">>) @@ ("def,abc,def" :> <<"def", "abc", "def">>)

\* The validator Struct looks up for a field: nil when the name is not
\* registered.
Lookup(reg, name) == IF name \in DOMAIN reg THEN reg[name] ELSE NoValidator

\* A validator name the registry does not know fails the bind.
UnregisteredIgnored(reg, name) == FALSE
Unregistered(reg, name) == name # "" /\ name \notin DOMAIN reg

\* The widget Struct and Slice return: the container and what was appended.
Container(kind, title, parts) ==
  [kind |-> kind, parts |-> parts, attrs |-> Attrs(TitleAttr(title, ""), NaN, NaN, NaN)]

\* The list Slice returns, with what its populate closes over: the bounds
\* and the validator Slice was called with.
SliceList(title, lis, min, max, step, valid) ==
  [kind |-> "slice", parts |-> lis, attrs |-> Attrs(TitleAttr(title, ""), NaN, NaN, NaN),
   min |-> min, max |-> max, step |-> step, valid |-> valid]

\* An error value: its message and, where the message has one, the index
\* of the field or element it names.
Err(msg, at) == [err |-> msg, at |-> at]

\* What convert returns: the binder it called ("none" if none), "ok" with
\* the widget and the value the binder leaves in the variable, "error"
\* with the error and the errors it wraps, outermost first, or "panic" when
\* the call never returns.
Converted(binder, outcome, err, w, val) ==
  [binder |-> binder, outcome |-> outcome, err |-> err, w |-> w, val |-> val]

NoWidget == Widget("none", 0, 0, NoValidator, NaN, NaN, <<>>)

\* What Struct and Slice return: how the call ended, the error, the field or
\* element it stopped at and the errors it wraps, the parts of the widget,
\* and the fields or elements as the call leaves them.
Result(outcome, err, at, cause, containers, fields) ==
  [outcome |-> outcome, err |-> err, at |-> at, cause |-> cause,
   form |-> containers, rec |-> fields]

\* The error of a result and the errors it wraps, outermost first.
Chain(r) == <<Err(r.err, r.at)>> \o r.cause

\* The kinds convert has a case for.
ScalarKinds == {"bool", "int", "float64", "string"}
SupportedKinds == ScalarKinds \cup {"struct", "slice"}

\* t.Kind() == reflect.Ptr of what the caller passes.
AnyIsPointer(x) == TRUE
IsPointer(x) == x.ref # "val"

RECURSIVE Convert(_, _, _, _, _, _, _, _)
RECURSIVE StructFrom(_, _, _, _)
RECURSIVE StructPtr(_, _, _)
RECURSIVE SliceFrom(_, _, _, _, _, _, _, _)
RECURSIVE SlicePtr(_, _, _, _, _, _, _)

\* convert: the binder of the kind of val, behind at most one pointer.  The
\* scalar binders take a pointer of the predeclared type: the type assertion
\* panics on a defined type, and the binder dereferences a nil pointer.
Convert(val, title, choices, min, max, step, valid, reg) ==
  LET intf == [val EXCEPT !.ref = IF val.ref = "val" THEN "ptr" ELSE val.ref]
  IN IF val.ref = "ptrptr" \/ val.kind \notin SupportedKinds
     THEN Converted("none", "error", <<Err("unsupported type", 0)>>, NoWidget, val.val)
     ELSE IF val.kind = "struct"
     THEN LET ReturnedStruct(r) ==
                Converted("Struct", r.outcome, IF r.outcome = "ok" THEN <<>> ELSE Chain(r),
                          Container("struct", title, r.form), r.rec)
          IN ReturnedStruct(StructPtr(intf, title, reg))
     ELSE IF val.kind = "slice"
     THEN LET ReturnedSlice(r) ==
                Converted("Slice", r.outcome, IF r.outcome = "ok" THEN <<>> ELSE Chain(r),
                          SliceList(title, r.form, min, max, step, valid), r.rec)
          IN ReturnedSlice(SlicePtr(intf, title, min, max, step, valid, reg))
     ELSE IF val.named
     THEN Converted("none", "panic", <<Err("interface conversion", 0)>>, NoWidget, val.val)
     ELSE CASE val.kind = "bool" ->
                 IF val.ref = "nil"
                 THEN Converted("Bool", "panic", <<Err("nil pointer dereference", 0)>>, NoWidget, val.val)
                 ELSE Converted("Bool", "ok", <<>>, BoolWidget(val.val, title, valid), val.val)
            [] val.kind = "int" ->
                 IF val.ref = "nil"
                 THEN Converted("Int", "panic", <<Err("nil pointer dereference", 0)>>, NoWidget, val.val)
                 ELSE Converted("Int", "ok", <<>>, IntWidget(val.val, title, min, max, step, valid), val.val)
            [] val.kind = "float64" ->
                 IF val.ref = "nil"
                 THEN Converted("Float64", "panic", <<Err("nil pointer dereference", 0)>>, NoWidget, val.val)
                 ELSE Converted("Float64", "ok", <<>>, Float64Widget(val.val, title, min, max, step, valid), val.val)
            [] val.kind = "string" /\ choices = "" ->
                 IF val.ref = "nil"
                 THEN Converted("String", "panic", <<Err("nil pointer dereference", 0)>>, NoWidget, val.val)
                 ELSE Converted("String", "ok", <<>>, StringWidget(val.val, title, valid), val.val)
            [] val.kind = "string" /\ choices # "" ->
                 IF val.ref = "nil"
                 THEN Converted("Choice", "panic", <<Err("nil pointer dereference", 0)>>, NoWidget, val.val)
                 ELSE LET list == SplitComma[choices]
                          s == ChoiceDefault(list, val.val)
                          index == ChoiceIndex(list, s)
                      IN IF index = -1
                         THEN Converted("Choice", "error", <<Err("default is not among valid choices", 0)>>, NoWidget, s)
                         ELSE Converted("Choice", "ok", <<>>, ChoiceWidget(index, list, title, valid), s)

\* fieldType.PkgPath != "": the field is not exported.
NeverUnexported(f) == FALSE
IsUnexported(f) == ~f.exported

\* The loop of Struct over the fields from field i on; containers are the
\* field containers appended so far.
StructFrom(fields, i, reg, containers) ==
  IF i > Len(fields) THEN Result("ok", "", 0, <<>>, containers, fields)
  ELSE LET f == fields[i] IN
    IF IsUnexported(f) THEN StructFrom(fields, i + 1, reg, containers)
    ELSE IF Unregistered(reg, f.valid)
    THEN Result("error", "unregistered validator", i, <<>>, <<>>, fields)
    ELSE IF TagFails(f.min) THEN Result("error", "min expected a number", i, <<>>, <<>>, fields)
    ELSE IF TagFails(f.max) THEN Result("error", "max expected a number", i, <<>>, <<>>, fields)
    ELSE IF TagFails(f.step) THEN Result("error", "step expected a number", i, <<>>, <<>>, fields)
    ELSE LET RestOfFields(c, after) ==
               IF c.outcome = "panic" THEN Result("panic", c.err[Len(c.err)].err, i, <<>>, <<>>, after)
               ELSE IF c.outcome = "error" THEN Result("error", "converting struct field", i, c.err, <<>>, after)
               ELSE StructFrom(after, i + 1, reg, Append(containers, [field |-> i, w |-> c.w]))
             FieldStep(c) == RestOfFields(c, [fields EXCEPT ![i].val = c.val])
         IN FieldStep(Convert(f, f.title, f.choice, TagBound(f.min), TagBound(f.max), TagBound(f.step),
                              Lookup(reg, f.valid), reg))

\* Struct(structPtr, ...) on a pointer to the struct.
Struct(fields, reg) == StructFrom(fields, 1, reg, <<>>)

\* Struct(structPtr, title, ...) on whatever the caller passes: the checks of
\* the argument, then the loop.  reflect.TypeOf of a literal nil is nil, and
\* a nil pointer to a struct has no fields to take.
StructPtr(structPtr, title, reg) ==
  IF structPtr.kind = "untyped nil"
  THEN Result("panic", "nil pointer dereference", 0, <<>>, <<>>, structPtr.val)
  ELSE IF ~IsPointer(structPtr)
  THEN Result("error", "structPtr should be a pointer", 0, <<>>, <<>>, structPtr.val)
  ELSE IF structPtr.ref = "ptrptr" \/ structPtr.kind # "struct"
  THEN Result("error", "structPtr should be a pointer to struct", 0, <<>>, <<>>, structPtr.val)
  ELSE IF structPtr.ref = "nil"
  THEN IF \E i \in 1..Len(structPtr.val) : structPtr.val[i].exported
       THEN Result("panic", "call of reflect.Value.Field on zero Value",
                   CHOOSE i \in 1..Len(structPtr.val) :
                     /\ structPtr.val[i].exported
                     /\ \A h \in 1..(i - 1) : ~structPtr.val[h].exported,
                   <<>>, <<>>, structPtr.val)
       ELSE Result("ok", "", 0, <<>>, <<>>, structPtr.val)
  ELSE Struct(structPtr.val, reg)

\* The loop of populate over the elements from element i on (i from 0, as
\* in the error it returns); lis are the rows appended so far.
SliceFrom(elems, i, min, max, step, valid, reg, lis) ==
  IF i >= Len(elems) THEN Result("ok", "", 0, <<>>, lis, elems)
  ELSE LET RestOfElems(c, after) ==
             IF c.outcome = "panic" THEN Result("panic", c.err[Len(c.err)].err, i, <<>>, <<>>, after)
             ELSE IF c.outcome = "error" THEN Result("error", "converting slice element", i, c.err, <<>>, after)
             ELSE SliceFrom(after, i + 1, min, max, step, valid, reg, Append(lis, c.w))
           ElemStep(c) == RestOfElems(c, [elems EXCEPT ![i + 1].val = c.val])
       IN ElemStep(Convert(elems[i + 1], "", "", min, max, step, valid, reg))

\* Slice(slicePtr, title, ...) on whatever the caller passes: the checks of
\* the argument, then populate.  sliceValue.Len() panics on the zero Value a
\* nil pointer gives.
SlicePtr(slicePtr, title, min, max, step, valid, reg) ==
  IF slicePtr.kind = "untyped nil"
  THEN Result("panic", "nil pointer dereference", 0, <<>>, <<>>, slicePtr.val)
  ELSE IF ~IsPointer(slicePtr)
  THEN Result("error", "slicePtr should be a pointer", 0, <<>>, <<>>, slicePtr.val)
  ELSE IF slicePtr.ref = "ptrptr" \/ slicePtr.kind # "slice"
  THEN Result("error", "slicePtr should be a pointer to slice", 0, <<>>, <<>>, slicePtr.val)
  ELSE IF slicePtr.ref = "nil"
  THEN Result("panic", "call of reflect.Value.Len on zero Value", 0, <<>>, <<>>, slicePtr.val)
  ELSE LET Populated(r) == [r EXCEPT !.rec = SliceOf(slicePtr.val.elem, r.rec)]
       IN Populated(SliceFrom(slicePtr.val.elems, 0, min, max, step, valid, reg, <<>>))

\* The struct variables of a behaviour that binds no struct.
NoStruct ==
  /\ validators = <<>>
  /\ rec = <<>>
  /\ form = <<>>

\* The variables of a behaviour before Slice or Struct has returned a
\* widget, and of one that calls no binder on an argument of any type.
NoTop == top = <<>>
NoCall == arg = <<>> /\ ret = <<>>

\* ---------------------------------------------------- the scalar scenario

\* op: "init", "bind" or "change"; kind: the binder; w: the widget's place in
\* ws (0: none); input: the value passed to the binder, or the state of the
\* control the event reports; outcome: how the call or the handler ended.
Event(op, kind, w, input, outcome) ==
  [op |-> op, kind |-> kind, w |-> w, input |-> input, outcome |-> outcome]

CellValues(t) ==
  CASE t = "bool" -> BOOLEAN
    [] t = "int" -> Ints
    [] t = "float64" -> Floats
    [] t = "string" -> Strings

InitScalar ==
  /\ scn = "scalar"
  /\ ctype \in {"bool", "int", "float64", "string"}
  /\ cell \in CellValues(ctype)
  /\ meta \in Metas(ctype)
  /\ ws = <<>>
  /\ NoSlice
  /\ NoStruct /\ NoTop /\ NoCall
  /\ ev = Event("init", "none", 0, cell, "none")

Bound(w) ==
  /\ ws' = Append(ws, w)
  /\ ev' = Event("bind", w.kind, Len(ws) + 1, cell, "ok")
  /\ UNCHANGED <<scn, ctype, meta, top, callVars, sliceVars, structVars>>

BindBool ==
  /\ scn = "scalar" /\ ctype = "bool" /\ Len(ws) < MaxWidgets
  /\ Bound(BoolWidget(cell, meta.title, meta.valid))
  /\ UNCHANGED cell

BindInt ==
  /\ scn = "scalar" /\ ctype = "int" /\ Len(ws) < MaxWidgets
  /\ Bound(IntWidget(cell, meta.title, meta.min, meta.max, meta.step, meta.valid))
  /\ UNCHANGED cell

BindFloat64 ==
  /\ scn = "scalar" /\ ctype = "float64" /\ Len(ws) < MaxWidgets
  /\ Bound(Float64Widget(cell, meta.title, meta.min, meta.max, meta.step, meta.valid))
  /\ UNCHANGED cell

BindString ==
  /\ scn = "scalar" /\ ctype = "string" /\ Len(ws) < MaxWidgets
  /\ Bound(StringWidget(cell, meta.title, meta.valid))
  /\ UNCHANGED cell

BindChoice ==
  /\ scn = "scalar" /\ ctype = "string" /\ Len(ws) < MaxWidgets
  /\ \E choices \in ChoiceLists :
       IF cell = "" /\ choices = <<>>
       THEN /\ ev' = Event("bind", "choice", 0, [s |-> cell, choices |-> choices], "panic")
            /\ UNCHANGED <<scn, meta, top, callVars, scalarVars, sliceVars, structVars>>
       ELSE LET s == ChoiceDefault(choices, cell)
                index == ChoiceIndex(choices, s)
            IN /\ cell' = s
               /\ IF index = -1
                  THEN /\ ws' = ws
                       /\ ev' = Event("bind", "choice", 0, [s |-> cell, choices |-> choices], "error")
                  ELSE /\ ws' = Append(ws, ChoiceWidget(index, choices, meta.title, meta.valid))
                       /\ ev' = Event("bind", "choice", Len(ws) + 1, [s |-> cell, choices |-> choices], "ok")
               /\ UNCHANGED <<scn, ctype, meta, top, callVars, sliceVars, structVars>>

\* A change event on widget i: the handler runs to its end.
Fired(i, input, h) ==
  /\ ws' = [ws EXCEPT ![i] = h.w]
  /\ cell' = h.value
  /\ ev' = Event("change", h.w.kind, i, input, h.outcome)
  /\ UNCHANGED <<scn, ctype, meta, top, callVars, sliceVars, structVars>>

ChangeBool ==
  \E i \in 1..Len(ws), checked \in BOOLEAN :
    /\ ws[i].kind = "bool"
    /\ Fired(i, checked, BoolChange(ws[i], cell, checked))

ChangeInt ==
  \E i \in 1..Len(ws), text \in NumTexts :
    /\ ws[i].kind = "int"
    /\ Fired(i, text, IntChange(ws[i], cell, text))

ChangeFloat64 ==
  \E i \in 1..Len(ws), text \in NumTexts :
    /\ ws[i].kind = "float64"
    /\ Fired(i, text, Float64Change(ws[i], cell, text))

ChangeString ==
  \E i \in 1..Len(ws), newS \in Strings :
    /\ ws[i].kind = "string"
    /\ Fired(i, newS, StringChange(ws[i], cell, newS))

ChangeChoice ==
  \E i \in 1..Len(ws) :
    /\ ws[i].kind = "choice"
    /\ \E newIndex \in 0..(Len(ws[i].choices) - 1) :
         Fired(i, newIndex, ChoiceChange(ws[i], cell, newIndex))

NextScalar ==
  \/ BindBool \/ BindInt \/ BindFloat64 \/ BindString \/ BindChoice
  \/ ChangeBool \/ ChangeInt \/ ChangeFloat64 \/ ChangeString \/ ChangeChoice

SpecScalar == InitScalar /\ [][NextScalar]_vars

\* ----------------------------------------------------- the slice scenario

\* The ints of the slices the caller binds, and what the user types into a row.
SliceInts == {2, 4}
SliceTexts == {IntText(-1)}
SliceMetas == {Meta(NoValidator, Unbounded("")), Meta(Rejecting({0}), <<F(10), F(40), F(20), "a slice">>)}

\* The caller's slice before Slice is called: a literal of int, or of *int
\* whose elements point to the caller's ints, each to its own or all to one.
InitSlice ==
  /\ scn = "slice"
  /\ ctype = "none" /\ cell = 0 /\ ws = <<>>
  /\ meta \in SliceMetas
  /\ etype \in {"int", "*int"}
  /\ \E n \in 0..MaxLen : \E vs \in [1..n -> SliceInts], shared \in BOOLEAN :
       /\ slice = [arr |-> 1, len |-> n]
       /\ IF etype = "int"
          THEN /\ ~shared
               /\ backing = [id |-> 1, slots |-> vs]
               /\ heap = <<>>
          ELSE /\ shared => n > 1
               /\ backing = [id |-> 1, slots |-> [k \in 1..n |-> IF shared THEN 1 ELSE k]]
               /\ heap = Reachable(vs, backing)
  /\ rows = <<>>
  /\ NoStruct /\ NoTop /\ NoCall
  /\ ev = Event("init", "none", 0, 0, "none")

\* Slice(slicePtr, ...) on a pointer to the caller's slice.
BindSlice ==
  /\ scn = "slice" /\ ev.op = "init"
  /\ rows' = Populate(etype, slice, backing, heap, meta)
  /\ top' = Attrs(TitleAttr(meta.title, ""), NaN, NaN, NaN)
  /\ ev' = Event("bind", "slice", 0, 0, "ok")
  /\ UNCHANGED <<scn, meta, callVars, scalarVars, structVars, etype, slice, backing, heap>>

\* A click on the add button.
AddElem ==
  /\ scn = "slice" /\ ev.op # "init" /\ slice.len < MaxLen
  /\ LET x == IF etype = "*int" THEN NewAddr(heap) ELSE 0
         hp == IF etype = "*int"
               THEN [a \in DOMAIN heap \cup {x} |-> IF a = x THEN 0 ELSE heap[a]]
               ELSE heap
     IN /\ backing' = AppendedBacking(slice, backing, x)
        /\ slice' = [arr |-> backing'.id, len |-> slice.len + 1]
        /\ heap' = Reachable(hp, backing')
        /\ rows' = Populate(etype, slice', backing', heap', meta)
  /\ ev' = Event("add", "slice", 0, 0, "ok")
  /\ UNCHANGED <<scn, meta, top, callVars, scalarVars, structVars, etype>>

\* A click on the delete button of the row at index i of the list.
DelElem ==
  /\ scn = "slice" /\ ev.op # "init"
  /\ \E i \in 0..(Len(rows) - 1) :
       /\ backing' = SplicedBacking(slice, backing, i)
       /\ slice' = [slice EXCEPT !.len = slice.len - 1]
       /\ heap' = Reachable(heap, backing')
       /\ rows' = Populate(etype, slice', backing', heap', meta)
       /\ ev' = Event("del", "slice", 0, i, "ok")
  /\ UNCHANGED <<scn, meta, top, callVars, scalarVars, structVars, etype>>

\* A change event on the widget of row r: the Int handler on the address the
\* row was bound to.
ChangeElem ==
  /\ scn = "slice"
  /\ \E r \in 1..Len(rows), text \in SliceTexts :
       LET row == rows[r]
           h == IntChange(row.w, IF etype = "int" THEN backing.slots[row.at] ELSE heap[row.at], text)
       IN /\ rows' = [rows EXCEPT ![r].w = h.w]
          /\ IF etype = "int"
             THEN /\ backing' = IF row.arr = backing.id
                                THEN [backing EXCEPT !.slots[row.at] = h.value]
                                ELSE backing
                  /\ heap' = heap
             ELSE /\ heap' = [heap EXCEPT ![row.at] = h.value]
                  /\ backing' = backing
          /\ ev' = Event("change", "int", r, text, h.outcome)
  /\ UNCHANGED <<scn, meta, top, callVars, scalarVars, structVars, etype, slice>>

NextSlice == BindSlice \/ AddElem \/ DelElem \/ ChangeElem

SpecSlice == InitSlice /\ [][NextSlice]_vars

\* ---------------------------------------------------- the struct scenario

\* The validators the caller registers, by name.
Registered == ("BoolTrue" :> Rejecting({FALSE})) @@ ("IntNot1" :> Rejecting({1}))

\* The fields the caller's structs are made of, after those of testStruct.
Fields ==
  << Field(FALSE, "bool", "val", FALSE, "DoesNotExist", "x", "", "", ""),
     Field(TRUE, "bool", "val", FALSE, "", "", "", "", ""),
     Field(TRUE, "bool", "val", TRUE, "BoolTrue", "", "", "", ""),
     Field(TRUE, "bool", "nil", FALSE, "", "", "", "", ""),
     Field(TRUE, "bool", "val", FALSE, "", "", "x", "", ""),
     Field(TRUE, "int", "val", 2, "DoesNotExist", "", "", "", ""),
     Field(TRUE, "int", "ptr", 2, "IntNot1", "1", "10", "2", ""),
     Field(TRUE, "int", "val", 2, "", "x", "", "", ""),
     Field(TRUE, "float64", "val", 17, "", "1.5", "", "", ""),
     Field(TRUE, "float64", "val", 17, "", "", "", "x", ""),
     Field(TRUE, "string", "ptr", "abc", "", "", "", "", ""),
     Field(TRUE, "string", "val", "", "", "", "", "", "def,abc"),
     Field(TRUE, "string", "val", "zzz", "", "", "", "", "def,abc"),
     Field(TRUE, "map", "val", 0, "", "", "", "", "") >>

\* The registry is empty at startup; the caller's struct is not yet bound.
InitStruct ==
  /\ scn = "struct"
  /\ ctype = "none" /\ cell = 0 /\ ws = <<>> /\ meta = Meta(NoValidator, Unbounded("a struct"))
  /\ NoSlice
  /\ validators = <<>>
  /\ \E n \in 1..MaxFields : \E pick \in [1..n -> 1..Len(Fields)] :
       rec = [k \in 1..n |-> Fields[pick[k]]]
  /\ form = <<>>
  /\ NoTop /\ NoCall
  /\ ev = Event("init", "none", 0, 0, "none")

\* RegisterValidator(name, fn)
RegisterValidator ==
  /\ scn = "struct" /\ ev.op \in {"init", "register"}
  /\ \E name \in DOMAIN Registered \ DOMAIN validators :
       /\ validators' = [n \in DOMAIN validators \cup {name} |->
                           IF n = name THEN Registered[name] ELSE validators[n]]
       /\ ev' = Event("register", "none", 0, name, "ok")
  /\ UNCHANGED <<scn, meta, top, callVars, scalarVars, sliceVars, rec, form>>

\* Struct(structPtr, ...) on a pointer to the caller's struct.
BindStruct ==
  /\ scn = "struct" /\ ev.op \in {"init", "register"}
  /\ LET r == Struct(rec, validators)
     IN /\ rec' = r.rec
        /\ form' = r.form
        /\ top' = IF r.outcome = "ok" THEN Attrs(TitleAttr(meta.title, ""), NaN, NaN, NaN) ELSE top
        /\ ev' = Event("bind", "struct", r.at, r.err, r.outcome)
  /\ UNCHANGED <<scn, meta, callVars, scalarVars, sliceVars, validators>>

NextStruct == RegisterValidator \/ BindStruct

SpecStruct == InitStruct /\ [][NextStruct]_vars

\* ------------------------------------------------------ the call scenario

\* The kinds and the levels of reference of what a caller passes.
LeafKinds == <<"bool", "int", "float64", "string", "map", "func", "int64">>
Refs == <<"val", "ptr", "nil", "ptrptr">>

\* A value of each kind.
LeafVal(kind) ==
  CASE kind = "bool" -> TRUE
    [] kind = "int" -> 2
    [] kind = "float64" -> 17
    [] kind = "string" -> "abc"
    [] OTHER -> 0

\* The fields the structs a caller passes are made of.
CallFields ==
  << Field(TRUE, "bool", "val", TRUE, "", "", "", "", ""),
     Field(FALSE, "map", "val", 0, "", "", "", "", ""),
     Field(TRUE, "map", "val", 0, "", "", "", "", ""),
     Field(TRUE, "int", "nil", 0, "", "1", "", "", ""),
     Field(TRUE, "string", "val", "", "", "", "", "", "def,abc"),
     Field(TRUE, "string", "val", "zzz", "", "", "", "", "def,abc"),
     Field(TRUE, "struct", "val",
           <<Field(TRUE, "int", "val", 2, "IntNot1", "1", "10", "2", "")>>, "", "", "", "", ""),
     Field(TRUE, "struct", "ptr",
           <<Field(TRUE, "func", "val", 0, "", "", "", "", "")>>, "", "", "", "", ""),
     Field(TRUE, "slice", "val",
           SliceOf(Elem("int", "val", 0), <<Elem("int", "val", 2), Elem("int", "val", 4)>>),
           "", "1", "", "", ""),
     Named(Field(TRUE, "float64", "val", 17, "", "", "", "", "")) >>

\* The slices a caller passes: the type of the elements, and the elements
\* a slice of that type is made of.
CallSlices ==
  << <<Elem("int", "val", 0), <<Elem("int", "val", 2), Elem("int", "val", 4)>> >>,
     <<Elem("int", "ptr", 0), <<Elem("int", "ptr", 2), Elem("int", "nil", 0)>> >>,
     <<Elem("map", "val", 0), <<Elem("map", "val", 0)>> >>,
     <<Elem("string", "val", ""), <<Elem("string", "val", "abc"), Elem("string", "val", "zzz")>> >>,
     <<Elem("int", "ptrptr", 0), <<Elem("int", "ptrptr", 2)>> >>,
     <<Named(Elem("float64", "val", 0)), <<Named(Elem("float64", "val", 17))>> >>,
     <<Elem("struct", "val", <<Field(TRUE, "string", "val", "", "", "", "", "", "def,abc")>>),
       <<Elem("struct", "val", <<Field(TRUE, "string", "val", "", "", "", "", "", "def,abc")>>),
         Elem("struct", "val", <<Field(TRUE, "string", "val", "zzz", "", "", "", "", "def,abc")>>)>> >>,
     <<Elem("slice", "val", SliceOf(Elem("int", "val", 0), <<>>)),
       <<Elem("slice", "val", SliceOf(Elem("int", "val", 0), <<>>)),
         Elem("slice", "val", SliceOf(Elem("int", "val", 0), <<Elem("int", "val", 2)>>))>> >>,
     <<Elem("struct", "val", <<Field(TRUE, "int", "nil", 0, "", "", "", "", "")>>),
       <<Elem("struct", "val", <<Field(TRUE, "int", "ptr", 2, "", "", "", "", "")>>)>> >> >>

\* What the caller passes: a literal nil, or a bool, int, float64, string,
\* map, func or int64, or a scalar of a defined type, or a struct, or a
\* slice, each itself or behind one or two pointers or as a nil pointer.
\* The validators of testStruct are registered.
InitCall ==
  /\ scn = "call"
  /\ ctype = "none" /\ cell = 0 /\ ws = <<>>
  /\ meta = Meta(Rejecting({1}), <<F(0), F(10), F(20), "a title">>)
  /\ NoSlice /\ NoTop
  /\ validators = Registered /\ rec = <<>> /\ form = <<>>
  /\ \/ arg = UntypedNil
     \/ \E k \in 1..Len(LeafKinds), r \in 1..Len(Refs) :
          arg = Elem(LeafKinds[k], Refs[r], LeafVal(LeafKinds[k]))
     \/ \E k \in 1..4, r \in 1..2 :
          arg = Named(Elem(LeafKinds[k], Refs[r], LeafVal(LeafKinds[k])))
     \/ \E n \in 0..MaxFields, r \in 1..Len(Refs) : \E pick \in [1..n -> 1..Len(CallFields)] :
          arg = Elem("struct", Refs[r], [k \in 1..n |-> CallFields[pick[k]]])
     \/ \E t \in 1..Len(CallSlices), n \in 0..MaxLen, r \in 1..Len(Refs) :
          \E pick \in [1..n -> 1..Len(CallSlices[t][2])] :
            arg = Elem("slice", Refs[r],
                       SliceOf(CallSlices[t][1], [k \in 1..n |-> CallSlices[t][2][pick[k]]]))
  /\ ret = <<>>
  /\ ev = Event("init", "none", 0, 0, "none")

\* convert(val, title, id, class, choices, min, max, step, valid) on the
\* value, as Struct calls it for a field and populate for an element.
CallConvert ==
  /\ scn = "call" /\ ev.op = "init" /\ arg.kind # "untyped nil"
  /\ \E choices \in {"", "def,abc"} :
       /\ ret' = Convert(arg, meta.title, choices, meta.min, meta.max, meta.step, meta.valid, validators)
       /\ ev' = Event("call", "convert", 0, choices, ret'.outcome)
  /\ UNCHANGED <<scn, meta, top, scalarVars, sliceVars, structVars, arg>>

\* Struct(structPtr, title, id, class) on what the caller passes.
CallStruct ==
  /\ scn = "call" /\ ev.op = "init"
  /\ ret' = StructPtr(arg, meta.title, validators)
  /\ top' = IF ret'.outcome = "ok" THEN Attrs(TitleAttr(meta.title, ""), NaN, NaN, NaN) ELSE top
  /\ ev' = Event("call", "Struct", 0, 0, ret'.outcome)
  /\ UNCHANGED <<scn, meta, scalarVars, sliceVars, structVars, arg>>

\* Slice(slicePtr, title, id, class, min, max, step, valid) on what the
\* caller passes.
CallSlice ==
  /\ scn = "call" /\ ev.op = "init"
  /\ ret' = SlicePtr(arg, meta.title, meta.min, meta.max, meta.step, meta.valid, validators)
  /\ top' = IF ret'.outcome = "ok" THEN Attrs(TitleAttr(meta.title, ""), NaN, NaN, NaN) ELSE top
  /\ ev' = Event("call", "Slice", 0, 0, ret'.outcome)
  /\ UNCHANGED <<scn, meta, scalarVars, sliceVars, structVars, arg>>

\* sliceValue.Slice(0, i) and sliceValue.Slice(i+1, Len) appended.
Without(elems, i) ==
  [k \in 1..(Len(elems) - 1) |-> IF k <= i THEN elems[k] ELSE elems[k + 1]]

\* Slice returned a list, and every click on it so far ran to its end.
Clickable == ev.op \in {"call", "add", "del"} /\ ev.kind = "Slice" /\ ev.outcome = "ok"

\* j.Empty() and populate() in a click handler, on the elements the slice
\* then has: the handler panics on the error populate returns, and a panic
\* below populate passes through it; the rows appended until then stay in
\* the list.
Rebuilt(elems, m, reg) ==
  LET Ended(r) ==
        IF r.outcome = "ok" THEN r
        ELSE [r EXCEPT !.outcome = "panic",
                       !.form = SliceFrom(SubSeq(r.rec, 1, r.at), 0, m.min, m.max, m.step,
                                          m.valid, reg, <<>>).form]
  IN Ended(SliceFrom(elems, 0, m.min, m.max, m.step, m.valid, reg, <<>>))

\* A click on the add button of the list Slice returned: reflect.New makes
\* the zero value of the element type, behind a new pointer for a pointer
\* type, and the handler appends it and rebuilds the rows.
ClickAdd ==
  /\ scn = "call" /\ Clickable /\ Len(ret.rec.elems) < MaxLen
  /\ \E r \in {Rebuilt(Append(ret.rec.elems, ret.rec.elem), meta, validators)} :
       /\ ret' = [ret EXCEPT !.form = r.form, !.rec = SliceOf(ret.rec.elem, r.rec)]
       /\ ev' = Event("add", "Slice", 0, 0, r.outcome)
  /\ UNCHANGED <<scn, meta, top, scalarVars, sliceVars, structVars, arg>>

\* A click on the delete button of the row at index i of that list.
ClickDel ==
  /\ scn = "call" /\ Clickable
  /\ \E i \in 0..(Len(ret.rec.elems) - 1) :
       \E r \in {Rebuilt(Without(ret.rec.elems, i), meta, validators)} :
         /\ ret' = [ret EXCEPT !.form = r.form, !.rec = SliceOf(ret.rec.elem, r.rec)]
         /\ ev' = Event("del", "Slice", 0, i, r.outcome)
  /\ UNCHANGED <<scn, meta, top, scalarVars, sliceVars, structVars, arg>>

NextCall == CallConvert \/ CallStruct \/ CallSlice \/ ClickAdd \/ ClickDel

SpecCall == InitCall /\ [][NextCall]_vars

\* ------------------------------------------------------ the pair scenario

\* Two values of one struct type, struct { B bool; N struct { I int
\* `valid:"IntNot1"` } }, each bound by its own call of Struct.
PairValue(b, i) ==
  << Field(TRUE, "bool", "val", b, "", "", "", "", ""),
     Field(TRUE, "struct", "val",
           << Field(TRUE, "int", "val", i, "IntNot1", "", "", "", "") >>,
           "", "", "", "", "") >>

\* validators[name] = fn
Registering(reg, name, fn) ==
  [n \in DOMAIN reg \cup {name} |-> IF n = name THEN fn ELSE reg[n]]

\* What the handlers of a bind capture: pointers into the struct that call
\* was given, structValue.Field(i) of it and the Addr() of that.  The one
\* stand-in has every bind capture pointers into the first struct.
AddrOfFirst(k) == 1
AddrOf(k) == k

\* What the caller registered before the binds: the validators of
\* testStruct, or those with a ValidateFloat64 under the name the int field
\* is tagged with.
PairRegistries == {Registered, Registering(Registered, "IntNot1", Asserting("float64", {10}))}

\* The texts typed into the int control of either form.
PairTexts == {IntText(1), IntText(-MaxInt), IntText(MaxInt), EmptyText}

InitPair ==
  /\ scn = "pair"
  /\ ctype = "none" /\ cell = 0 /\ ws = <<>> /\ meta = Meta(NoValidator, Unbounded("a pair"))
  /\ NoSlice /\ NoTop /\ NoCall
  /\ validators \in PairRegistries
  /\ \E b1 \in BOOLEAN, b2 \in BOOLEAN, i1 \in Ints, i2 \in Ints :
       rec = <<PairValue(b1, i1), PairValue(b2, i2)>>
  /\ form = << <<>>, <<>> >>
  /\ ev = Event("init", "none", 0, 0, "none")

\* RegisterValidator("", fn) by the caller of testStruct: the name is any
\* string, the empty one too.
RegisterUnnamed ==
  /\ scn = "pair" /\ validators = Registered
  /\ validators' = Registering(validators, "", Rejecting({FALSE}))
  /\ ev' = Event("register", "none", 0, "", "ok")
  /\ UNCHANGED <<scn, meta, top, callVars, scalarVars, sliceVars, rec, form>>

\* Struct(&v, ...) on the k-th value, once.
BindPair ==
  /\ scn = "pair"
  /\ \E k \in 1..2 :
       /\ form[k] = <<>>
       /\ LET r == Struct(rec[AddrOf(k)], validators)
          IN /\ rec' = [rec EXCEPT ![AddrOf(k)] = r.rec]
             /\ form' = [form EXCEPT ![k] = [root |-> AddrOf(k), parts |-> r.form]]
             /\ ev' = Event("bind", "pair", k, 0, r.outcome)
  /\ UNCHANGED <<scn, meta, top, callVars, scalarVars, sliceVars, validators>>

\* A change event on the checkbox of B in the k-th form.
ChangePairBool ==
  /\ scn = "pair"
  /\ \E k \in 1..2, checked \in BOOLEAN :
       /\ form[k] # <<>>
       /\ LET root == form[k].root
              h == BoolChange(form[k].parts[1].w, rec[root][1].val, checked)
          IN /\ rec' = [rec EXCEPT ![root][1].val = h.value]
             /\ form' = [form EXCEPT ![k].parts[1].w = h.w]
             /\ ev' = Event("change", "bool", k, checked, h.outcome)
  /\ UNCHANGED <<scn, meta, top, callVars, scalarVars, sliceVars, validators>>

\* A change event on the number control of N.I in the k-th form.
ChangePairInt ==
  /\ scn = "pair"
  /\ \E k \in 1..2, text \in PairTexts :
       /\ form[k] # <<>>
       /\ LET root == form[k].root
              h == IntChange(form[k].parts[2].w.parts[1].w, rec[root][2].val[1].val, text)
          IN /\ rec' = [rec EXCEPT ![root][2].val[1].val = h.value]
             /\ form' = [form EXCEPT ![k].parts[2].w.parts[1].w = h.w]
             /\ ev' = Event("change", "int", k, text, h.outcome)
  /\ UNCHANGED <<scn, meta, top, callVars, scalarVars, sliceVars, validators>>

NextPair == RegisterUnnamed \/ BindPair \/ ChangePairBool \/ ChangePairInt

SpecPair == InitPair /\ [][NextPair]_vars

\* -------------------------------------------------- the registry scenario

\* A struct { I int `valid:"IntNot1"`; L []int `valid:"IntNot1"`;
\* R []struct { J int `valid:"IntNot1"` } } bound once, while the caller
\* goes on registering validators under the name its tags use.
LateInts == {0, 1, 2}
LateElems(f) ==
  IF f = 2 THEN {Elem("int", "val", v) : v \in LateInts}
  ELSE {Elem("struct", "val", <<Field(TRUE, "int", "val", v, "IntNot1", "", "", "", "")>>) :
          v \in LateInts}
LateValue(i, l, r) ==
  << Field(TRUE, "int", "val", i, "IntNot1", "", "", "", ""),
     Field(TRUE, "slice", "val", SliceOf(Elem("int", "val", 0), l), "IntNot1", "", "", "", ""),
     Field(TRUE, "slice", "val",
           SliceOf(Elem("struct", "val",
                        <<Field(TRUE, "int", "val", 0, "IntNot1", "", "", "", "")>>), r),
           "", "", "", "", "") >>

\* The validators the caller registers under IntNot1, one after another.
LateValidators == {Rejecting({1}), Rejecting({2})}

\* The texts typed into the number controls of the form.
LateTexts == {IntText(1), IntText(2)}

\* populate, called again by a click handler of the list on the elements
\* the slice then has: with the bounds and the validator the list was made
\* with, and the registry as it then is for the structs among the elements.
Repopulated(list, elems, reg) ==
  SliceFrom(elems, 0, list.min, list.max, list.step, list.valid, reg, <<>>)

InitLate ==
  /\ scn = "late"
  /\ ctype = "none" /\ cell = 0 /\ ws = <<>> /\ meta = Meta(NoValidator, Unbounded("a form"))
  /\ NoSlice /\ NoTop /\ NoCall
  /\ validators = Registered
  /\ \E n \in 0..MaxRows, m \in 0..MaxRows :
       \E l \in [1..n -> LateElems(2)], r \in [1..m -> LateElems(3)] :
         rec = LateValue(0, l, r)
  /\ form = <<>>
  /\ ev = Event("init", "none", 0, 0, "none")

\* RegisterValidator("IntNot1", fn), before or after the bind.
Reregister ==
  /\ scn = "late"
  /\ \E fn \in LateValidators \ {validators["IntNot1"]} :
       /\ validators' = Registering(validators, "IntNot1", fn)
       /\ ev' = Event("register", "none", 0, "IntNot1", "ok")
  /\ UNCHANGED <<scn, meta, top, callVars, scalarVars, sliceVars, rec, form>>

\* Struct(&v, ...), once.
BindLate ==
  /\ scn = "late" /\ form = <<>>
  /\ LET r == Struct(rec, validators)
     IN /\ rec' = r.rec
        /\ form' = r.form
        /\ ev' = Event("bind", "late", 0, 0, r.outcome)
  /\ UNCHANGED <<scn, meta, top, callVars, scalarVars, sliceVars, validators>>

\* A change event on the number control of I.
ChangeLateInt ==
  /\ scn = "late" /\ form # <<>>
  /\ \E text \in LateTexts :
       LET h == IntChange(form[1].w, rec[1].val, text)
       IN /\ rec' = [rec EXCEPT ![1].val = h.value]
          /\ form' = [form EXCEPT ![1].w = h.w]
          /\ ev' = Event("change", "int", 1, text, h.outcome)
  /\ UNCHANGED <<scn, meta, top, callVars, scalarVars, sliceVars, validators>>

\* A click on the add button of the list of field f, L or R.
AddLate ==
  /\ scn = "late" /\ form # <<>>
  /\ \E f \in {2, 3} :
       /\ Len(rec[f].val.elems) < MaxRows
       /\ LET r == Repopulated(form[f].w, Append(rec[f].val.elems, rec[f].val.elem), validators)
          IN /\ rec' = [rec EXCEPT ![f].val.elems = r.rec]
             /\ form' = [form EXCEPT ![f].w.parts = r.form]
             /\ ev' = Event("add", "slice", f, 0, r.outcome)
  /\ UNCHANGED <<scn, meta, top, callVars, scalarVars, sliceVars, validators>>

\* A click on the delete button of row i of the list of field f.
DelLate ==
  /\ scn = "late" /\ form # <<>>
  /\ \E f \in {2, 3} : \E i \in 0..(Len(rec[f].val.elems) - 1) :
       LET r == Repopulated(form[f].w, Without(rec[f].val.elems, i), validators)
       IN /\ rec' = [rec EXCEPT ![f].val.elems = r.rec]
          /\ form' = [form EXCEPT ![f].w.parts = r.form]
          /\ ev' = Event("del", "slice", f, i, r.outcome)
  /\ UNCHANGED <<scn, meta, top, callVars, scalarVars, sliceVars, validators>>

\* A change event on the number control of row k of L.
ChangeLateRow ==
  /\ scn = "late" /\ form # <<>>
  /\ \E k \in 1..Len(rec[2].val.elems), text \in LateTexts :
       LET h == IntChange(form[2].w.parts[k], rec[2].val.elems[k].val, text)
       IN /\ rec' = [rec EXCEPT ![2].val.elems[k].val = h.value]
          /\ form' = [form EXCEPT ![2].w.parts[k] = h.w]
          /\ ev' = Event("change", "row", k, text, h.outcome)
  /\ UNCHANGED <<scn, meta, top, callVars, scalarVars, sliceVars, validators>>

\* A change event on the number control of J in row k of R.
ChangeLateRec ==
  /\ scn = "late" /\ form # <<>>
  /\ \E k \in 1..Len(rec[3].val.elems), text \in LateTexts :
       LET h == IntChange(form[3].w.parts[k].parts[1].w, rec[3].val.elems[k].val[1].val, text)
       IN /\ rec' = [rec EXCEPT ![3].val.elems[k].val[1].val = h.value]
          /\ form' = [form EXCEPT ![3].w.parts[k].parts[1].w = h.w]
          /\ ev' = Event("change", "rec", k, text, h.outcome)
  /\ UNCHANGED <<scn, meta, top, callVars, scalarVars, sliceVars, validators>>

NextLate ==
  \/ Reregister \/ BindLate \/ ChangeLateInt \/ AddLate \/ DelLate
  \/ ChangeLateRow \/ ChangeLateRec

SpecLate == InitLate /\ [][NextLate]_vars

\* Every scenario.
Init == InitScalar \/ InitSlice \/ InitStruct \/ InitCall \/ InitPair \/ InitLate

Next == NextScalar \/ NextSlice \/ NextStruct \/ NextCall \/ NextPair \/ NextLate

Spec == Init /\ [][Next]_vars

\* ------------------------------------------------ reading a step or a state

\* f (in tenths) rounded toward zero, stated without division.
TowardZero(t) ==
  CHOOSE k \in -(MaxInt + 2)..(MaxInt + 2) :
    IF t >= 0 THEN 10 * k <= t /\ t < 10 * k + 10
              ELSE 10 * k >= t /\ t > 10 * k - 10

\* The value a change event proposes, in the type of the bound variable.
Candidate(w, input) ==
  CASE w.kind = "bool" -> input
    [] w.kind = "int" -> TowardZero(input.n)
    [] w.kind = "float64" -> input.n
    [] w.kind = "string" -> input
    [] w.kind = "choice" -> At(w.choices, input)

\* The event carries something the declared type can be read from.
Parses(w, input) == w.kind \in {"int", "float64"} => ~input.empty

\* The validator is absent or accepts c.
ValidatorAccepts(w, c) == w.valid.nil \/ c \notin w.valid.rejects

\* x (in tenths) is within every bound that is set.
InRange(min, max, x) == (min.nan \/ min.t <= x) /\ (max.nan \/ x <= max.t)

\* c is within the declared min and max of the widget.
WithinBounds(w, c) ==
  CASE w.kind = "int" -> InRange(w.min, w.max, 10 * c)
    [] w.kind = "float64" -> InRange(w.min, w.max, c)
    [] OTHER -> TRUE

\* c is within the declared min and max, each rounded toward zero.
WithinTruncatedBounds(w, c) ==
  /\ w.min.nan \/ TowardZero(w.min.t) <= c
  /\ w.max.nan \/ c <= TowardZero(w.max.t)

\* The widget displays the value v.
Shows(w, v) ==
  CASE w.kind = "bool" -> w.display = v
    [] w.kind = "int" -> ~w.display.empty /\ w.display.n = 10 * v
    [] w.kind = "float64" -> ~w.display.empty /\ w.display.n = v
    [] w.kind = "string" -> w.display = v
    [] w.kind = "choice" -> At(w.choices, w.display) = v

\* The previous-accepted state of the widget, as a value.
PrevValue(w) == IF w.kind = "choice" THEN At(w.choices, w.prev) ELSE w.prev

\* This step is a change event on a scalar widget that could be read.
ScalarChange == ev'.op = "change" /\ scn = "scalar" /\ Parses(ws[ev'.w], ev'.input)

\* ------------------------------------------------------------ the claims

\* C1: validator gating.  For every scalar binder and every change event
\* whose candidate the validator rejects, the bound value after the handler
\* equals the bound value before the event and the widget displays that
\* value, also when the value is bound to more than one widget.
C1_ValidatorGating ==
  [][(ScalarChange /\ ~ValidatorAccepts(ws[ev'.w], Candidate(ws[ev'.w], ev'.input)))
       => (cell' = cell /\ Shows(ws'[ev'.w], cell))]_vars

\* C2: commit on acceptance.  When the validator is absent or accepts the
\* candidate and the candidate is within min and max, the handler leaves the
\* candidate in the bound value, in the display and in previous-accepted.
C2_CommitOnAcceptance ==
  [][(/\ ScalarChange
      /\ ValidatorAccepts(ws[ev'.w], Candidate(ws[ev'.w], ev'.input))
      /\ WithinBounds(ws[ev'.w], Candidate(ws[ev'.w], ev'.input)))
       => (/\ ev'.outcome = "commit"
           /\ cell' = Candidate(ws[ev'.w], ev'.input)
           /\ Shows(ws'[ev'.w], Candidate(ws[ev'.w], ev'.input))
           /\ PrevValue(ws'[ev'.w]) = Candidate(ws[ev'.w], ev'.input)
           /\ ws[ev'.w].kind = "choice"
                => ws'[ev'.w].display = ev'.input /\ ws'[ev'.w].prev = ev'.input)]_vars

\* C2, its case: a validator and both bounds are set and an edit is committed.
C2_Witness ==
  /\ scn = "scalar" /\ ev.op = "change" /\ ev.kind = "float64" /\ ev.outcome = "commit"
  /\ ~ws[ev.w].valid.nil /\ ~ws[ev.w].min.nan /\ ~ws[ev.w].max.nan
  /\ ev.input = DotText(7) /\ cell = 7 /\ ws[ev.w].prev = 7

\* C3 as stated: an Int binder with no validator commits c exactly when
\* min <= c <= max for every bound that is set, for whole and fractional
\* bounds alike, and otherwise rejects it and leaves the value unchanged.
C3_BoundsAsDeclared ==
  [][(ScalarChange /\ ev'.kind = "int" /\ ws[ev'.w].valid.nil)
       => IF WithinBounds(ws[ev'.w], Candidate(ws[ev'.w], ev'.input))
          THEN ev'.outcome = "commit" /\ cell' = Candidate(ws[ev'.w], ev'.input)
          ELSE ev'.outcome = "rollback" /\ cell' = cell]_vars

\* C3, amended: an Int binder with no validator commits c exactly when
\* int(min) <= c <= int(max) for every bound that is set, int rounding toward
\* zero; otherwise it rolls back: the value and the display become the
\* widget's previous-accepted state, which is the value before the event
\* when this is the only widget bound to it.
C3_BoundsTruncated ==
  [][(ScalarChange /\ ev'.kind = "int" /\ ws[ev'.w].valid.nil)
       => IF WithinTruncatedBounds(ws[ev'.w], Candidate(ws[ev'.w], ev'.input))
          THEN ev'.outcome = "commit" /\ cell' = Candidate(ws[ev'.w], ev'.input)
          ELSE /\ ev'.outcome = "rollback"
               /\ cell' = ws[ev'.w].prev
               /\ Shows(ws'[ev'.w], ws[ev'.w].prev)
               /\ Len(ws) = 1 => cell' = cell]_vars

\* C3, its case: min is 1.5, no validator, and an edit to 1 is committed.
C3_Witness ==
  /\ scn = "scalar" /\ ev.op = "change" /\ ev.kind = "int" /\ ev.outcome = "commit"
  /\ ws[ev.w].valid.nil /\ ws[ev.w].min = F(15)
  /\ ev.input = IntText(1) /\ cell = 1

\* C4: truncation.  An Int change event carrying a fractional value f whose
\* truncation the validator and the bounds accept stores the integer
\* truncation of f toward zero and displays that integer.
C4_Truncation ==
  [][(/\ ScalarChange /\ ev'.kind = "int" /\ ev'.input.dot
      /\ ValidatorAccepts(ws[ev'.w], TowardZero(ev'.input.n))
      /\ WithinBounds(ws[ev'.w], TowardZero(ev'.input.n)))
       => (/\ ev'.outcome = "commit"
           /\ cell' = TowardZero(ev'.input.n)
           /\ ws'[ev'.w].display = IntText(TowardZero(ev'.input.n)))]_vars

\* C4, its case: -2.7 was typed and -2 is stored and displayed.
C4_Witness ==
  /\ scn = "scalar" /\ ev.op = "change" /\ ev.kind = "int" /\ ev.outcome = "commit"
  /\ ev.input = DotText(-27) /\ cell = -2 /\ ws[ev.w].display = IntText(-2)

\* The elements of s, as a set.
Range(s) == {s[k] : k \in 1..Len(s)}

\* The int an element x of the caller's slice holds or points to in hp.
Pointee(x, hp) == IF etype = "int" THEN x ELSE hp[x]

\* C5: collection insertion.  One add event on a bound slice of length n
\* yields a slice of length n+1 whose first n elements are unchanged (the
\* same values, and for pointer elements the same objects with the same
\* contents), whose last element is the zero value (for pointer elements a
\* non-nil pointer to a new zero that no existing element points to), and
\* n+1 rows are rendered, whatever the validator and the bounds.
C5_Insertion ==
  [][(ev'.op = "add")
       => LET old == Elems(slice, backing)
              new == Elems(slice', backing')
              last == new[Len(new)]
          IN /\ Len(new) = Len(old) + 1
             /\ \A k \in 1..Len(old) :
                  new[k] = old[k] /\ Pointee(new[k], heap') = Pointee(old[k], heap)
             /\ Pointee(last, heap') = 0
             /\ etype = "*int" => last # 0 /\ last \notin DOMAIN heap /\ last \notin Range(old)
             /\ Len(rows') = Len(old) + 1]_vars

\* C5, its case: [2,4] became [2,4,0] with 3 rows although the validator
\* rejects 0 and 0 is below min.
C5_Witness ==
  /\ scn = "slice" /\ ev.op = "add" /\ etype = "int"
  /\ ~meta.valid.nil /\ 0 \in meta.valid.rejects /\ ~meta.min.nan
  /\ Elems(slice, backing) = <<2, 4, 0>> /\ Len(rows) = 3

\* C6: collection removal.  A remove event on row i of a bound slice of
\* length n, 0 <= i < n, yields the old sequence with element i deleted:
\* the elements before i keep their index, those after i move down by one,
\* values and referenced objects unchanged, and n-1 rows are rendered.
C6_Removal ==
  [][(ev'.op = "del")
       => LET old == Elems(slice, backing)
              new == Elems(slice', backing')
              i == ev'.input
          IN /\ 0 <= i /\ i < Len(old)
             /\ Len(new) = Len(old) - 1
             /\ \A k \in 1..Len(new) :
                  LET from == IF k <= i THEN k ELSE k + 1
                  IN new[k] = old[from] /\ Pointee(new[k], heap') = Pointee(old[from], heap)
             /\ Len(rows') = Len(old) - 1]_vars

\* C6, its case: the middle row of a slice of three was removed and the
\* last element moved down.
C6_Witness ==
  /\ scn = "slice" /\ ev.op = "del" /\ etype = "int" /\ ev.input = 1
  /\ Elems(slice, backing) = <<2, 4>> /\ Len(rows) = 2

\* C7 as stated, for the binds that return: binding a Choice whose value is
\* the empty string leaves the first choice in the value and selects index
\* 0; a non-empty value not in the list fails, returns no widget and leaves
\* the value unchanged; a value in the list stays and the selected index i
\* has choices[i] equal to it.
C7_ChoiceDefault ==
  [][(ev'.op = "bind" /\ ev'.kind = "choice" /\ ev'.outcome # "panic")
       => LET s == ev'.input.s
              choices == ev'.input.choices
          IN IF s = ""
             THEN /\ ev'.outcome = "ok"
                  /\ cell' = choices[1]
                  /\ ws'[ev'.w].display = 0
             ELSE IF s \notin Range(choices)
             THEN ev'.outcome = "error" /\ ws' = ws /\ cell' = cell
             ELSE /\ ev'.outcome = "ok"
                  /\ cell' = s
                  /\ At(choices, ws'[ev'.w].display) = s]_vars

\* The field is exported and names a validator the registry does not know.
NamesUnknownValidator(f, reg) == f.exported /\ f.valid # "" /\ f.valid \notin DOMAIN reg

\* Struct binds the field without an error: its tags are numbers or absent,
\* its type is supported, it is not a nil pointer and a choice field holds
\* a choice or nothing.
FieldBinds(f, reg) ==
  \/ ~f.exported
  \/ /\ f.valid = "" \/ f.valid \in DOMAIN reg
     /\ f.min \in DOMAIN TagNumbers \cup {""}
     /\ f.max \in DOMAIN TagNumbers \cup {""}
     /\ f.step \in DOMAIN TagNumbers \cup {""}
     /\ f.kind \in {"bool", "int", "float64", "string"}
     /\ f.ref # "nil"
     /\ (f.kind = "string" /\ f.choice # "") => f.val \in Range(SplitComma[f.choice]) \cup {""}

\* This step is a call of Struct on the caller's struct.
StructBind == ev'.op = "bind" /\ ev'.kind = "struct"

\* C8 as stated, for the binds that return: a struct in which any exported
\* field names a validator that is not registered fails to bind with the
\* unregistered-validator error and no widget, wherever that field is.
C8_UnregisteredAnywhere ==
  [][(/\ StructBind /\ ev'.outcome # "panic"
      /\ \E k \in 1..Len(rec) : NamesUnknownValidator(rec[k], validators))
       => (/\ ev'.outcome = "error"
           /\ ev'.input = "unregistered validator"
           /\ form' = <<>>)]_vars

\* C8, amended: a struct in which any exported field names a validator that
\* is not registered never binds and yields no widget, wherever that field
\* is; the call returns the unregistered-validator error for the first such
\* field when every field before it binds, and otherwise ends at the first
\* field that does not.
C8_UnregisteredFailsBind ==
  [][(/\ StructBind
      /\ \E k \in 1..Len(rec) : NamesUnknownValidator(rec[k], validators))
       => LET k == CHOOSE j \in 1..Len(rec) :
                     /\ NamesUnknownValidator(rec[j], validators)
                     /\ \A h \in 1..(j - 1) : ~NamesUnknownValidator(rec[h], validators)
          IN /\ ev'.outcome # "ok"
             /\ form' = <<>>
             /\ IF \A h \in 1..(k - 1) : FieldBinds(rec[h], validators)
                THEN /\ ev'.outcome = "error"
                     /\ ev'.input = "unregistered validator"
                     /\ ev'.w = k
                ELSE /\ ev'.input # "unregistered validator"
                     /\ ev'.w < k
                     /\ ~FieldBinds(rec[ev'.w], validators)
                     /\ \A h \in 1..(ev'.w - 1) : FieldBinds(rec[h], validators)]_vars

\* C8, its case: the last of three fields names an unknown validator, the
\* two before it bind, one of them with a registered validator, and the call
\* returned the unregistered-validator error and no widget.
C8_Witness ==
  /\ scn = "struct" /\ ev.op = "bind" /\ ev.outcome = "error"
  /\ ev.input = "unregistered validator" /\ ev.w = 3 /\ Len(rec) = 3
  /\ rec[3].valid = "DoesNotExist" /\ rec[1].valid = "BoolTrue" /\ rec[2].exported
  /\ form = <<>>

\* This step is a bind of a scalar or of a slice that returned a widget.
BindReturns == ev'.op = "bind" /\ ev'.outcome = "ok" /\ scn \in {"scalar", "slice"}

\* Every row shows the element of its index.
RowsShowElems(rs, sl, bk, hp) ==
  /\ Len(rs) = sl.len
  /\ \A k \in 1..sl.len : Shows(rs[k].w, Pointee(bk.slots[k], hp))

\* C9 as stated: right after a successful bind the widget displays the value
\* the caller passed in, for Bool, Int, Float64, String and Choice, and a
\* bound slice renders as many rows as it has elements.
C9_RoundTripOfPassedValue ==
  [][BindReturns
       => IF scn = "scalar"
          THEN Shows(ws'[ev'.w], cell)
          ELSE Len(rows') = slice.len]_vars

\* C9, amended: right after a successful bind the widget displays the value
\* the bound variable then holds, which is the value the caller passed in
\* except for a Choice passed the empty string, where it is the first
\* choice; a bound slice renders as many rows as it has elements, each
\* showing its element, and the slice is as the caller passed it.
C9_RoundTrip ==
  [][BindReturns
       => IF scn = "scalar"
          THEN /\ Shows(ws'[ev'.w], cell')
               /\ PrevValue(ws'[ev'.w]) = cell'
               /\ IF ev'.kind = "choice" /\ cell = ""
                  THEN cell' = ev'.input.choices[1]
                  ELSE cell' = cell
          ELSE /\ RowsShowElems(rows', slice, backing, heap)
               /\ <<slice', backing', heap'>> = <<slice, backing, heap>>]_vars

\* C9, its case: a Choice passed the empty string was bound and displays
\* the first choice, which the variable now holds.
C9_Witness ==
  /\ scn = "scalar" /\ ev.op = "bind" /\ ev.kind = "choice" /\ ev.outcome = "ok"
  /\ ev.input.s = "" /\ cell = "def" /\ ws[ev.w].display = 0

\* The binder of a kind, given the choice list convert is passed.
BinderOf(kind, choices) ==
  CASE kind = "bool" -> "Bool"
    [] kind = "int" -> "Int"
    [] kind = "float64" -> "Float64"
    [] kind = "string" -> IF choices = "" THEN "String" ELSE "Choice"
    [] kind = "struct" -> "Struct"
    [] kind = "slice" -> "Slice"
    [] OTHER -> "none"

\* This step is a call of convert on the caller's value.
ConvertCall == ev'.op = "call" /\ ev'.kind = "convert"

\* C11: type dispatch.  For a value of kind bool, int, float64, string,
\* struct or slice, itself or behind one pointer, convert calls the binder
\* of that kind and no other, Choice for a string with a choice list and
\* String for one without; for every other kind (map, func, pointer to
\* pointer, other integer widths) it returns the unsupported-type error and
\* calls no binder.
C11_Dispatch ==
  [][ConvertCall
       => IF arg.ref # "ptrptr" /\ arg.kind \in {"bool", "int", "float64", "string", "struct", "slice"}
          THEN ret'.binder = BinderOf(arg.kind, ev'.input)
          ELSE /\ ret'.binder = "none"
               /\ ret'.outcome = "error"
               /\ ret'.err = <<Err("unsupported type", 0)>>]_vars

\* This step is a call of Struct or of Slice on what the caller passes.
EntryCall == ev'.op = "call" /\ ev'.kind \in {"Struct", "Slice"}

\* x is a value that is not a pointer.
NonReference(x) == x.ref = "val" /\ x.kind # "untyped nil"

\* x is a pointer, to something that is not of the kind.
ReferenceToOther(x, kind) == x.ref = "ptrptr" \/ (x.ref \in {"ptr", "nil"} /\ x.kind # kind)

\* C12: preconditions of Slice and Struct.  Slice returns an error and no
\* widget when passed a non-pointer or a pointer to something that is not a
\* slice, Struct when passed a non-pointer or a pointer to something that is
\* not a struct; in both cases nothing is mutated.
C12_Preconditions ==
  [][(/\ EntryCall
      /\ \/ NonReference(arg)
         \/ ReferenceToOther(arg, IF ev'.kind = "Slice" THEN "slice" ELSE "struct"))
       => (/\ ret'.outcome = "error"
           /\ ret'.err = IF NonReference(arg)
                         THEN (IF ev'.kind = "Slice" THEN "slicePtr should be a pointer"
                                                     ELSE "structPtr should be a pointer")
                         ELSE (IF ev'.kind = "Slice" THEN "slicePtr should be a pointer to slice"
                                                     ELSE "structPtr should be a pointer to struct")
           /\ ret'.form = <<>>
           /\ ret'.rec = arg.val /\ arg' = arg /\ top' = top)]_vars

\* C12, its case: Slice was passed a pointer to a struct with fields and
\* returned the error and no widget.
C12_Witness ==
  /\ scn = "call" /\ ev.op = "call" /\ ev.kind = "Slice"
  /\ arg.kind = "struct" /\ arg.ref = "ptr" /\ Len(arg.val) > 0
  /\ ret.outcome = "error" /\ ret.err = "slicePtr should be a pointer to slice"
  /\ ret.form = <<>> /\ top = <<>>

\* C13: no bind panics.  Every call of a binder, whatever it is passed (a
\* nil pointer to a scalar, a nil pointer field, a nil element, a literal
\* nil, a Choice with no choices), returns, and returns no widget when it
\* returns an error.
C13_BindNeverPanics ==
  [][(ev'.op \in {"bind", "call"})
       => (/\ ev'.outcome \in {"ok", "error"}
           /\ (scn = "call" /\ ev'.outcome = "error" /\ ev'.kind # "convert") => ret'.form = <<>>)]_vars

\* What convert returns for a field of a struct and for an element of the
\* slice passed to Slice.
FieldConverted(f, reg) ==
  Convert(f, f.title, f.choice, TagBound(f.min), TagBound(f.max), TagBound(f.step), Lookup(reg, f.valid), reg)
ElemConverted(e) == Convert(e, "", "", meta.min, meta.max, meta.step, meta.valid, validators)

\* Struct reaches the conversion of field f, and it does not succeed.
FieldFailsToConvert(f, reg) ==
  /\ f.exported /\ ~Unregistered(reg, f.valid)
  /\ ~TagFails(f.min) /\ ~TagFails(f.max) /\ ~TagFails(f.step)
  /\ FieldConverted(f, reg).outcome # "ok"

\* Struct gets past field f: it skips it or appends its container.
FieldPasses(f, reg) ==
  \/ ~f.exported
  \/ /\ ~Unregistered(reg, f.valid)
     /\ ~TagFails(f.min) /\ ~TagFails(f.max) /\ ~TagFails(f.step)
     /\ FieldConverted(f, reg).outcome = "ok"

\* The first index of s whose entry satisfies P, or 0.
FirstOf(s, P(_)) ==
  IF \E k \in 1..Len(s) : P(s[k])
  THEN CHOOSE k \in 1..Len(s) : P(s[k]) /\ \A h \in 1..(k - 1) : ~P(s[h])
  ELSE 0

\* The caller passed a pointer, not nil, to a value of the kind.
PointerTo(x, kind) == x.ref = "ptr" /\ x.kind = kind

\* C14: all or nothing.  If the bind of an element k of the slice fails,
\* Slice returns the conversion error carrying k and the error of the
\* element, and no widget, not the rows built before k; a Struct whose
\* field fails to bind returns the error naming the field, and no widget.
C14_AllOrNothing ==
  [][EntryCall
       => /\ (ev'.kind = "Slice" /\ PointerTo(arg, "slice"))
               => LET Fails(e) == ElemConverted(e).outcome # "ok"
                      k == FirstOf(arg.val.elems, Fails)
                  IN k # 0 => /\ ret'.outcome = "error"
                              /\ ret'.err = "converting slice element"
                              /\ ret'.at = k - 1
                              /\ ret'.cause = ElemConverted(arg.val.elems[k]).err
                              /\ ret'.form = <<>>
          /\ (ev'.kind = "Struct" /\ PointerTo(arg, "struct"))
               => LET Stops(f) == ~FieldPasses(f, validators)
                      k == FirstOf(arg.val, Stops)
                  IN (k # 0 /\ FieldFailsToConvert(arg.val[k], validators))
                       => /\ ret'.outcome = "error"
                          /\ ret'.err = "converting struct field"
                          /\ ret'.at = k
                          /\ ret'.cause = FieldConverted(arg.val[k], validators).err
                          /\ ret'.form = <<>>]_vars

\* The type has no binder: its kind has no case in convert, or it is a
\* pointer to a pointer.
UnsupportedType(x) == x.ref = "ptrptr" \/ x.kind \notin {"bool", "int", "float64", "string", "struct", "slice"}

\* C15: Slice returns an error whenever the type of the elements is not
\* supported, for every slice of that type, an empty one included.
C15_UnsupportedElemType ==
  [][(/\ ev'.op = "call" /\ ev'.kind = "Slice" /\ PointerTo(arg, "slice")
      /\ UnsupportedType(arg.val.elem))
       => (ret'.outcome = "error" /\ ret'.form = <<>>)]_vars

\* The indices of the exported fields of a supported type.
SupportedFields(fields) == {i \in 1..Len(fields) : fields[i].exported /\ ~UnsupportedType(fields[i])}

\* C16: Struct ignores exported fields of an unsupported type: a struct
\* with such a field, whose other fields bind, binds, and its widget has
\* the field containers of exactly the supported exported fields.
C16_UnsupportedFieldsIgnored ==
  [][(/\ ev'.op = "call" /\ ev'.kind = "Struct" /\ PointerTo(arg, "struct")
      /\ \E i \in 1..Len(arg.val) : arg.val[i].exported /\ UnsupportedType(arg.val[i])
      /\ \A i \in 1..Len(arg.val) : UnsupportedType(arg.val[i]) \/ FieldPasses(arg.val[i], validators))
       => (/\ ret'.outcome = "ok"
           /\ {ret'.form[k].field : k \in 1..Len(ret'.form)} = SupportedFields(arg.val))]_vars

\* The title attribute of a widget or of the attributes of one.
TitleOf(attrs) == attrs["title"]

\* C17: the title mirrors the label.  A successful bind by Bool, Int,
\* Float64, String, Choice, Slice or Struct returns a widget whose title
\* attribute is the title passed, and no later change, add or remove event
\* changes it.
C17_TitleMirrorsLabel ==
  /\ scn = "scalar" => \A i \in 1..Len(ws) : TitleOf(ws[i].attrs) = meta.title
  /\ (scn = "slice" /\ ev.op # "init") => TitleOf(top) = meta.title
  /\ (scn = "struct" /\ ev.op = "bind" /\ ev.outcome = "ok") => TitleOf(top) = meta.title
  /\ (scn = "call" /\ ev.op = "call" /\ ev.kind # "convert" /\ ev.outcome = "ok")
       => TitleOf(top) = meta.title

\* C17, its case: a row was removed from a slice bound with a title, and
\* the list still has it.
C17_Witness ==
  /\ scn = "slice" /\ ev.op = "del" /\ meta.title = "a slice" /\ TitleOf(top) = "a slice"

\* The other of the two values of the pair scenario.
Other(k) == 3 - k

\* C18: independent binds.  Two values of one struct type, with a nested
\* struct field, each bound by its own Struct call: a bind of one, and a
\* change event on a widget of one, top-level or nested, leaves the other
\* value and the other's widgets as they were, and an accepted change is
\* written to the value its widget was bound to.
C18_IndependentBinds ==
  [][(scn = "pair" /\ ev'.op \in {"bind", "change"})
       => /\ rec'[Other(ev'.w)] = rec[Other(ev'.w)]
          /\ form'[Other(ev'.w)] = form[Other(ev'.w)]
          /\ (ev'.op = "change" /\ ev'.kind = "bool" /\ ev'.outcome = "commit")
               => rec'[ev'.w][1].val = ev'.input
          /\ (ev'.op = "change" /\ ev'.kind = "int" /\ ev'.outcome = "commit")
               => rec'[ev'.w][2].val[1].val = Atoi(ev'.input).v]_vars

\* C18, its case: both values are bound, and the nested int of the second
\* has just taken a value the first does not have.
C18_Witness ==
  /\ scn = "pair" /\ form[1] # <<>> /\ form[2] # <<>>
  /\ ev.op = "change" /\ ev.kind = "int" /\ ev.w = 2 /\ ev.outcome = "commit"
  /\ rec[2][2].val[1].val = MaxInt /\ rec[1][2].val[1].val = 0

\* C19: choice membership.  After a successful Choice bind, whatever change
\* events that widget has handled, accepted or rejected, the bound string
\* is one of the choices and is the choice at the selected index.
C19_ChoiceMembership ==
  (scn = "scalar" /\ Len(ws) = 1 /\ ctype = "string")
    => (ws[1].kind = "choice"
          => /\ cell \in Range(ws[1].choices)
             /\ ws[1].display \in 0..(Len(ws[1].choices) - 1)
             /\ cell = At(ws[1].choices, ws[1].display))

\* C19, its case: the only widget is a Choice with a duplicate choice, and
\* it has just rejected a selection.
C19_Witness ==
  /\ scn = "scalar" /\ Len(ws) = 1 /\ ev.op = "change" /\ ev.kind = "choice"
  /\ ev.outcome = "rollback" /\ ws[1].choices = <<"def", "abc", "def">>
  /\ cell = "def" /\ ws[1].display = 2

\* The bounds of the range check of a widget: int(min), int(max) for Int.
LowerLimit(w) == IF w.kind = "int" THEN 10 * TowardZero(w.min.t) ELSE w.min.t
UpperLimit(w) == IF w.kind = "int" THEN 10 * TowardZero(w.max.t) ELSE w.max.t

\* c in tenths, for a candidate of an Int or a Float64 widget.
Tenths(w, c) == IF w.kind = "int" THEN 10 * c ELSE c

\* The widget has the native attributes min, max, step exactly for those of
\* the three that are set.
RendersOnlySet(w, min, max, step) ==
  w.kind \in {"int", "float64"}
    => /\ ("min" \in DOMAIN w.attrs) = ~min.nan
       /\ ("max" \in DOMAIN w.attrs) = ~max.nan
       /\ ("step" \in DOMAIN w.attrs) = ~step.nan

\* The bound a tag sets, read from its text: unset when absent.
TagSets(tag) == IF tag = "" THEN NaN ELSE F(TagNumbers[tag])

\* C20: unset bounds.  min, max and step are each unset by NaN on its own:
\* an unset min (max) puts no lower (upper) limit on a candidate the
\* validator accepts while the other bound, if set, is still enforced; an
\* unset bound is not rendered as a native attribute; and in a Struct bind
\* an absent min, max or step tag means unset, not zero.
C20_UnsetBounds ==
  [][/\ (ScalarChange /\ ev'.kind \in {"int", "float64"}
           /\ ValidatorAccepts(ws[ev'.w], Candidate(ws[ev'.w], ev'.input)))
          => LET w == ws[ev'.w]
                 c == Tenths(w, Candidate(w, ev'.input))
                 low == ~w.min.nan /\ c < LowerLimit(w)
                 high == ~w.max.nan /\ c > UpperLimit(w)
             IN /\ (low \/ high) <=> ev'.outcome = "rollback"
                /\ ~(low \/ high) <=> ev'.outcome = "commit"
     /\ scn = "scalar"
          => \A i \in 1..Len(ws') :
               /\ RendersOnlySet(ws'[i], meta.min, meta.max, meta.step)
               /\ ws'[i].kind \in {"int", "float64"}
                    => ws'[i].min = meta.min /\ ws'[i].max = meta.max
     /\ scn = "slice"
          => \A r \in 1..Len(rows') :
               /\ RendersOnlySet(rows'[r].w, meta.min, meta.max, meta.step)
               /\ rows'[r].w.min = meta.min /\ rows'[r].w.max = meta.max
     /\ scn = "struct"
          => \A k \in 1..Len(form') :
               LET f == rec[form'[k].field]
                   w == form'[k].w
               IN /\ RendersOnlySet(w, TagSets(f.min), TagSets(f.max), TagSets(f.step))
                  /\ w.kind \in {"int", "float64"}
                       => w.min = TagSets(f.min) /\ w.max = TagSets(f.max)]_vars

\* C20, its case: an Int with max set and min unset has no min attribute,
\* has a max attribute, and committed a candidate below every other limit.
C20_Witness ==
  /\ scn = "scalar" /\ ev.op = "change" /\ ev.kind = "int" /\ ev.outcome = "commit"
  /\ ws[ev.w].min.nan /\ ~ws[ev.w].max.nan
  /\ "min" \notin DOMAIN ws[ev.w].attrs /\ "max" \in DOMAIN ws[ev.w].attrs
  /\ cell = -MaxInt

\* The indices of the exported fields, in declaration order.
ExportedIndices(fields) ==
  SelectSeq([k \in 1..Len(fields) |-> k], LAMBDA k : fields[k].exported)

BoundWith(w, m) ==
  /\ w.valid = m.valid
  /\ w.kind \in {"int", "float64"}
       => /\ w.min = m.min /\ w.max = m.max
          /\ RendersOnlySet(w, m.min, m.max, m.step)

\* Every row of the list is the widget of kind for its element, bound with m,
\* and so is every row of a row that is itself a list.
RowsBoundWith(lis, elem, kind, m) ==
  \A k \in 1..Len(lis) :
    IF elem.kind = "slice"
    THEN /\ lis[k].kind = "slice"
         /\ \A j \in 1..Len(lis[k].parts) :
              lis[k].parts[j].kind = elem.val.elem.kind /\ BoundWith(lis[k].parts[j], m)
    ELSE lis[k].kind = kind /\ BoundWith(lis[k], m)

\* This step binds a slice of scalars or of slices of scalars, directly or
\* as convert does for a field, and returns its list.
SliceCall ==
  /\ scn = "call" /\ ev'.op = "call" /\ ev'.kind \in {"convert", "Slice"}
  /\ ev'.outcome = "ok" /\ arg.kind = "slice"
  /\ arg.val.elem.kind \in ScalarKinds \cup {"slice"}

\* The rows of the list such a step returns.
ListOf(r) == IF ev'.kind = "convert" THEN r.w.parts ELSE r.form

\* The rows of a bound slice, at the bind and after every rebuild by add or
\* remove, are bound with the validator and the bounds of the slice.
RebuiltUniform ==
  (scn = "slice" /\ ev'.op \in {"bind", "add", "del"})
    => /\ Len(rows') = slice'.len
       /\ \A r \in 1..Len(rows') : BoundWith(rows'[r].w, meta)

\* C22 as stated: every row of a bound slice, at the bind and after every
\* rebuild, is bound with the validator, min, max, step and the choice list
\* of the slice: the elements of a slice of strings given a choice list are
\* Choice widgets over that list, and a slice of slices passes validator and
\* bounds down to the innermost scalars.
C22_UniformWithChoices ==
  [][/\ RebuiltUniform
     /\ SliceCall
          => RowsBoundWith(ListOf(ret'), arg.val.elem,
                           IF arg.val.elem.kind = "string" /\ ev'.kind = "convert" /\ ev'.input # ""
                           THEN "choice" ELSE arg.val.elem.kind,
                           meta)]_vars

\* C22, amended: every row of a bound slice, at the bind and after every
\* rebuild, is bound with the validator, min, max and step of the slice, and
\* a slice of slices passes them down to the innermost scalars; a choice
\* list is not passed to a slice: the elements of a slice of strings are
\* String widgets, also for a field with a choice tag.
C22_UniformValidatorAndBounds ==
  [][/\ RebuiltUniform
     /\ SliceCall => RowsBoundWith(ListOf(ret'), arg.val.elem, arg.val.elem.kind, meta)]_vars

\* C22, its case: convert was given a slice of two strings and a choice
\* list, and returned a list of two String widgets with the validator.
C22_Witness ==
  /\ scn = "call" /\ ev.op = "call" /\ ev.kind = "convert" /\ ev.input = "def,abc"
  /\ ev.outcome = "ok" /\ arg.kind = "slice" /\ arg.val.elem.kind = "string"
  /\ Len(ret.w.parts) = 2 /\ ret.w.parts[2].kind = "string"
  /\ ret.w.parts[2].valid = meta.valid /\ ~meta.valid.nil

\* The int that element k of a slice holds or points to.
ElemValueIn(bk, hp, k) == IF etype = "int" THEN bk.slots[k] ELSE hp[bk.slots[k]]

\* C23: fields commit independently.  A change event on the widget of one
\* field of a struct, or of one element of a slice, leaves the widgets of
\* all other fields and elements as they were and changes no value but the
\* one its widget is bound to; and when the edit is rejected it takes back
\* no edit committed through another widget, also when two pointer fields
\* hold the same pointer.
C23_FieldsCommitIndependently ==
  [][/\ (scn = "scalar" /\ ev'.op = "change")
          => /\ \A k \in 1..Len(ws) \ {ev'.w} : ws'[k] = ws[k]
             /\ (ev'.outcome = "rollback" /\ Len(ws) > 1) => cell' = cell
     /\ (scn = "slice" /\ ev'.op = "change")
          => \A k \in 1..Len(rows) \ {ev'.w} :
               /\ rows'[k] = rows[k]
               /\ (etype = "int" \/ backing.slots[k] # backing.slots[ev'.w]
                     \/ ev'.outcome = "rollback")
                    => ElemValueIn(backing', heap', k) = ElemValueIn(backing, heap, k)
     /\ (scn = "pair" /\ ev'.op = "change")
          => LET other == IF ev'.kind = "bool" THEN 2 ELSE 1
             IN /\ rec'[ev'.w][other] = rec[ev'.w][other]
                /\ form'[ev'.w].parts[other] = form[ev'.w].parts[other]]_vars

\* There is one row per element of the caller's slice, and row k is bound
\* to the storage of element k: slot k of the current backing array, or the
\* object element k points to.
RowsSynced(rs, sl, bk) ==
  /\ Len(rs) = sl.len
  /\ \A k \in 1..sl.len :
       IF etype = "int" THEN rs[k].arr = bk.id /\ rs[k].at = k
                        ELSE rs[k].at = bk.slots[k]

C25_CoercionBeforeValidation ==
  [][(ScalarChange /\ ev'.kind = "int" /\ ev'.input.dot)
       => LET w == ws[ev'.w]
              c == TowardZero(ev'.input.n)
              accepted == ValidatorAccepts(w, c) /\ WithinTruncatedBounds(w, c)
          IN /\ ~accepted
                  => /\ ev'.outcome = "rollback"
                     /\ cell' = w.prev
                     /\ Shows(ws'[ev'.w], w.prev)
                     /\ ws'[ev'.w].prev = w.prev
             /\ accepted
                  => /\ ev'.outcome = "commit"
                     /\ cell' = c
                     /\ ws'[ev'.w].display = IntText(c)
             /\ (/\ ~w.max.nan /\ ev'.input.n > w.max.t /\ 10 * c = w.max.t
                 /\ ValidatorAccepts(w, c) /\ (w.min.nan \/ TowardZero(w.min.t) <= c))
                  => ev'.outcome = "commit" /\ cell' = c]_vars

\* C25, its case: max is 1, 1.7 was typed, and 1 is committed.
C25_Witness ==
  /\ scn = "scalar" /\ ev.op = "change" /\ ev.kind = "int" /\ ev.outcome = "commit"
  /\ ev.input = DotText(17) /\ ws[ev.w].max = F(10) /\ cell = 1
  /\ ws[ev.w].display = IntText(1)

\* C26: Choice rollback is by position.  A Choice keeps the index of the
\* last accepted selection: a selection the validator rejects leaves the
\* selected index at that stored index and the bound value at the choice of
\* that index, also among duplicate choices; a selection at index n the
\* validator accepts leaves n stored and selected and choices[n] in the
\* bound value.
C26_RollbackByPosition ==
  [][(scn = "scalar" /\ ev'.op = "change" /\ ev'.kind = "choice")
       => LET w == ws[ev'.w]
              n == ev'.input
          IN IF ValidatorAccepts(w, At(w.choices, n))
             THEN /\ ev'.outcome = "commit"
                  /\ ws'[ev'.w].prev = n /\ ws'[ev'.w].display = n
                  /\ cell' = At(w.choices, n)
             ELSE /\ ev'.outcome = "rollback"
                  /\ ws'[ev'.w].prev = w.prev /\ ws'[ev'.w].display = w.prev
                  /\ cell' = At(w.choices, w.prev)]_vars

\* C26, its case: among the choices def, abc, def the first def was
\* accepted, and a rejected selection then left index 0 selected, not the
\* other def.
C26_Witness ==
  /\ scn = "scalar" /\ Len(ws) = 1 /\ ev.op = "change" /\ ev.kind = "choice"
  /\ ev.outcome = "rollback" /\ ws[1].choices = <<"def", "abc", "def">>
  /\ ws[1].prev = 0 /\ ws[1].display = 0 /\ cell = "def"

\* C27: an unparseable edit is fatal and changes nothing.  A change event on
\* an Int or a Float64 whose text is not a number (the empty text) ends in a
\* panic, neither coerced nor rolled back, and the bound value, the
\* previous-accepted state and every other widget are then what they were;
\* no other change event panics (the checked property of a Bool event is a
\* boolean).
C27_UnparseableIsFatal ==
  [][(scn = "scalar" /\ ev'.op = "change")
       => LET w == ws[ev'.w]
          IN /\ (w.kind \in {"int", "float64"} /\ ev'.input.empty)
                  => /\ ev'.outcome = "panic"
                     /\ cell' = cell
                     /\ ws'[ev'.w].prev = w.prev
                     /\ \A k \in 1..Len(ws) \ {ev'.w} : ws'[k] = ws[k]
             /\ ev'.outcome = "panic"
                  => w.kind \in {"int", "float64"} /\ ev'.input.empty]_vars

\* C27, its case: the text of an Int holding 2 was emptied; the handler
\* panicked and the value and previous-accepted are still 2.
C27_Witness ==
  /\ scn = "scalar" /\ ev.op = "change" /\ ev.kind = "int" /\ ev.outcome = "panic"
  /\ ev.input = EmptyText /\ cell = 2 /\ ws[ev.w].prev = 2 /\ ws[ev.w].display.empty

\* The field is exported and its min, max or step tag is not a number.
MalformedBound(f) ==
  /\ f.exported
  /\ \E tag \in {f.min, f.max, f.step} : tag # "" /\ tag \notin DOMAIN TagNumbers

\* C28: malformed numeric metadata.  A Struct bind of a struct with an
\* exported field, of any kind, whose min, max or step tag is not empty and
\* not a number returns an error and no widget, whatever the fields before
\* that field are.
C28_MalformedBoundFailsBind ==
  [][(StructBind /\ \E k \in 1..Len(rec) : MalformedBound(rec[k]))
       => (ev'.outcome = "error" /\ form' = <<>>)]_vars

\* Every widget of the bound form that a validator name was resolved for
\* has the validator fn: the widget of I, the rows of L, and the widget of J
\* in every row of R.
FormValidates(fm, fn) ==
  /\ fm[1].w.valid = fn
  /\ \A k \in 1..Len(fm[2].w.parts) : fm[2].w.parts[k].valid = fn
  /\ \A k \in 1..Len(fm[3].w.parts) : fm[3].w.parts[k].parts[1].w.valid = fn

\* C29: validator resolution happens at bind time.  Every widget a Struct
\* bind creates uses the validator that was registered under its field's
\* validator name when Struct was called; a validator registered under that
\* name afterwards changes the validator of none of them, the rows that a
\* later add or remove rebuilds included, for a slice of ints and for a
\* slice of structs alike.
C29_ResolvedAtBind ==
  [][scn = "late"
       => /\ ev'.op = "bind" => FormValidates(form', validators["IntNot1"])
          /\ (ev'.op # "bind" /\ form # <<>>) => FormValidates(form', form[1].w.valid)]_vars

\* C30: previous-accepted tracks the bound value.  With one widget on the
\* value, after the bind and after every change handler that ran to its
\* end, accepted or rejected, the previous-accepted state, the bound value
\* and the display agree (for a Choice the stored index is the selected
\* index and its choice is the bound value); and the previous-accepted
\* state of a widget changes only in a change event on that widget.
C30_PrevTracksValue ==
  [][scn = "scalar"
       => /\ (Len(ws') = 1 /\ ev'.outcome \in {"ok", "commit", "rollback"})
               => /\ PrevValue(ws'[1]) = cell'
                  /\ Shows(ws'[1], cell')
                  /\ ws'[1].kind = "choice" => ws'[1].display = ws'[1].prev
          /\ \A i \in 1..Len(ws) :
               ws'[i].prev # ws[i].prev => ev'.op = "change" /\ ev'.w = i]_vars

\* C30, its case: the only widget, a String holding def, rejected abc, and
\* value, display and previous-accepted are def.
C30_Witness ==
  /\ scn = "scalar" /\ Len(ws) = 1 /\ ws[1].kind = "string"
  /\ ev.op = "change" /\ ev.outcome = "rollback" /\ ev.input = "abc"
  /\ cell = "def" /\ ws[1].prev = "def" /\ ws[1].display = "def"

\* The validator of the widget accepts v and v passes the range check the
\* handler of the widget makes.
PassesChecks(w, v) ==
  /\ ValidatorAccepts(w, v)
  /\ IF w.kind = "int" THEN WithinTruncatedBounds(w, v) ELSE WithinBounds(w, v)

\* C31: only validated values are ever stored.  Every change event on a
\* scalar widget leaves in the bound value either what it held, or the
\* previous-accepted value of the widget (the value of its bind, for Choice
\* after defaulting, or an earlier accepted candidate), or the candidate of
\* the event, and the candidate only when the validator accepted it and it
\* passed the range check.  A value that passes the checks of every widget
\* is therefore never replaced by one that does not, while a value the
\* binder took over unchecked stays until an accepted edit replaces it.
C31_OnlyValidatedStored ==
  [][(scn = "scalar" /\ ev'.op = "change")
       => LET w == ws[ev'.w]
          IN /\ \/ cell' = cell
                \/ cell' = PrevValue(w)
                \/ /\ ev'.outcome = "commit"
                   /\ cell' = Candidate(w, ev'.input)
                   /\ PassesChecks(w, cell')
             /\ (\A i \in 1..Len(ws) :
                   PassesChecks(ws[i], cell) /\ PassesChecks(ws[i], PrevValue(ws[i])))
                  => (\A i \in 1..Len(ws') :
                        PassesChecks(ws'[i], cell') /\ PassesChecks(ws'[i], PrevValue(ws'[i])))]_vars

\* C31, its case: the variable held a value its validator rejects when it
\* was bound; an edit was rolled back, and the variable still holds it.
C31_Witness ==
  /\ scn = "scalar" /\ ev.op = "change" /\ ev.outcome = "rollback"
  /\ Len(ws) = 1 /\ ~ValidatorAccepts(ws[1], cell) /\ cell = PrevValue(ws[1])

\* C32: a failed bind leaves the bound value unchanged.  Whenever Struct or
\* Slice returns an error, every field and every element of what the caller
\* passed is as it was before the call, choice fields with an empty value
\* that precede the failing field included.
C32_FailedBindChangesNothing ==
  [][/\ (scn = "struct" /\ ev'.op = "bind" /\ ev'.outcome = "error") => rec' = rec
     /\ (scn = "call" /\ ev'.op = "call" /\ ev'.kind \in {"Struct", "Slice"}
           /\ ev'.outcome = "error")
          => ret'.rec = arg.val]_vars

\* C33: add and remove never abort.  Every click on the add button or on a
\* delete button of a list that Slice returned runs to its end with the
\* rows rebuilt, whatever the zero value of the element type is and also
\* when the slice was empty at the bind.
C33_ClicksNeverAbort ==
  [][ev'.op \in {"add", "del"} => ev'.outcome = "ok"]_vars

\* C34: a field with no validator name is bound with no validator.  In
\* every state of the registry, one with a validator registered under the
\* empty name included, every change event on the checkbox of the untagged
\* bool field B of a bound struct is committed: the field takes the state
\* of the checkbox.
C34_UntaggedFieldUnvalidated ==
  [][(scn = "pair" /\ ev'.op = "change" /\ ev'.kind = "bool")
       => /\ ev'.outcome = "commit"
          /\ rec'[ev'.w][1].val = ev'.input]_vars

\* C35: validation always yields accept or reject.  Whatever validator a
\* field of a bound struct took by name at the bind, a kind-specific one
\* registered under the name of a field of another kind included, every
\* change event that carries a value of the field's type ends in a commit
\* or in a rollback.
C35_AcceptOrReject ==
  [][(scn = "pair" /\ ev'.op = "change" /\ (ev'.kind = "int" => ~ev'.input.empty))
       => ev'.outcome \in {"commit", "rollback"}]_vars

\* C10: a rejected change only restores the display to previous-accepted and
\* writes nothing to the bound value, which keeps what it held before the
\* event even if that differs from previous-accepted.
C10_RollbackWritesNothing ==
  [][(ScalarChange /\ ev'.outcome = "rollback")
       => (/\ cell' = cell
           /\ Shows(ws'[ev'.w], PrevValue(ws[ev'.w]))
           /\ ws'[ev'.w].prev = ws[ev'.w].prev)]_vars

====
